---- MODULE Spec2Model ----
(***************************************************************************)
(* Verification model of rstmdb-studio's machine editor core:              *)
(*   - the guard expression compiler (GuardBuilder.tsx: parseExpression,   *)
(*     generateExpression and their helpers),                              *)
(*   - the definition/graph converter (conversion.ts: definitionToFlow,    *)
(*     flowToDefinition).                                                  *)
(* JavaScript strings that the code inspects character by character are    *)
(* sequences of one-character strings; strings that the code only          *)
(* concatenates and compares (state names, event names, guards of a        *)
(* transition) are TLA+ strings.                                           *)
(***************************************************************************)
EXTENDS Integers, Sequences, FiniteSets

(***************************************************************************)
(* Part 1.  JavaScript string primitives on sequences of characters        *)
(***************************************************************************)

\* Whitespace of the modelled alphabet (String.prototype.trim, regex \s).
Ws == {" "}

Digits == {"0", "1", "2", "3", "4", "5", "6", "7", "8", "9"}

Letters ==
  {"a", "b", "c", "d", "e", "f", "g", "h", "i", "j", "k", "l", "m",
   "n", "o", "p", "q", "r", "s", "t", "u", "v", "w", "x", "y", "z"}

\* The regex class \w restricted to the lower-case alphabet of the model.
WordChars == Letters \cup Digits \cup {"_"}

SetMin(S) == CHOOSE x \in S : \A y \in S : x <= y
SetMax(S) == CHOOSE x \in S : \A y \in S : x >= y

\* s.startsWith(p)
StartsWith(s, p) == Len(s) >= Len(p) /\ SubSeq(s, 1, Len(p)) = p

\* s.endsWith(p)
EndsWith(s, p) == Len(s) >= Len(p) /\ SubSeq(s, Len(s) - Len(p) + 1, Len(s)) = p

\* 1-based position of the first occurrence of sub in s, 0 when there is none.
IndexOf(s, sub) ==
  LET hits == {i \in 1..(Len(s) - Len(sub) + 1) : SubSeq(s, i, i + Len(sub) - 1) = sub}
  IN IF hits = {} THEN 0 ELSE SetMin(hits)

\* s.includes(sub)
Includes(s, sub) == IndexOf(s, sub) # 0

\* s.trim()
Trim(s) ==
  LET keep == {i \in 1..Len(s) : s[i] \notin Ws}
  IN IF keep = {} THEN <<>> ELSE SubSeq(s, SetMin(keep), SetMax(keep))

\* s.slice(from, -1) for a 0-based from.
SliceToLast(s, from) ==
  IF from + 1 > Len(s) - 1 THEN <<>> ELSE SubSeq(s, from + 1, Len(s) - 1)

\* s.split(sep) for a non-empty separator.
RECURSIVE Split(_, _)
Split(s, sep) ==
  LET i == IndexOf(s, sep)
  IN IF i = 0 THEN <<s>>
     ELSE <<SubSeq(s, 1, i - 1)>> \o Split(SubSeq(s, i + Len(sep), Len(s)), sep)

\* parts.join(joiner)
RECURSIVE Join(_, _)
Join(parts, joiner) ==
  IF Len(parts) = 0 THEN <<>>
  ELSE IF Len(parts) = 1 THEN parts[1]
  ELSE parts[1] \o joiner \o Join(Tail(parts), joiner)

\* The value of a run of decimal digits.
RECURSIVE DigitsToNat(_)
DigitVal(c) == CHOOSE n \in 0..9 : <<"0", "1", "2", "3", "4", "5", "6", "7", "8", "9">>[n + 1] = c
DigitsToNat(ds) ==
  IF Len(ds) = 0 THEN 0
  ELSE 10 * DigitsToNat(SubSeq(ds, 1, Len(ds) - 1)) + DigitVal(ds[Len(ds)])

\* The decimal digits of a natural number.
RECURSIVE NatToDigits(_)
NatToDigits(n) ==
  IF n < 10 THEN << <<"0", "1", "2", "3", "4", "5", "6", "7", "8", "9">>[n + 1] >>
  ELSE NatToDigits(n \div 10) \o NatToDigits(n % 10)

\* Last index of the maximal run of characters of class cls starting at i
\* (i - 1 when s[i] is not in cls).
RECURSIVE RunEnd(_, _, _)
RunEnd(s, i, cls) ==
  IF i <= Len(s) /\ s[i] \in cls THEN RunEnd(s, i + 1, cls) ELSE i - 1

\* ds without its trailing "0" characters.
RECURSIVE StripTrailingZeros(_)
StripTrailingZeros(ds) ==
  IF Len(ds) > 0 /\ ds[Len(ds)] = "0" THEN StripTrailingZeros(SubSeq(ds, 1, Len(ds) - 1))
  ELSE ds

(***************************************************************************)
(* Part 2.  Guard values, conditions and groups (guard-builder/types.ts)   *)
(***************************************************************************)

\* A JavaScript value of a condition: string | number | boolean | null |
\* undefined.  A number is sign, integer part and fraction digits (without
\* trailing zeros); -0 and 0 are one value, as they are under ===.
Str(s) == [t |-> "string", s |-> s, neg |-> FALSE, int |-> 0, frac |-> <<>>, b |-> FALSE]
Num(neg, int, frac) ==
  [t |-> "number", s |-> <<>>, neg |-> (neg /\ ~(int = 0 /\ frac = <<>>)),
   int |-> int, frac |-> frac, b |-> FALSE]
Bool(b) == [t |-> "boolean", s |-> <<>>, neg |-> FALSE, int |-> 0, frac |-> <<>>, b |-> b]
NullV == [t |-> "null", s |-> <<>>, neg |-> FALSE, int |-> 0, frac |-> <<>>, b |-> FALSE]
Undef == [t |-> "undefined", s |-> <<>>, neg |-> FALSE, int |-> 0, frac |-> <<>>, b |-> FALSE]
NaN == [t |-> "NaN", s |-> <<>>, neg |-> FALSE, int |-> 0, frac |-> <<>>, b |-> FALSE]

Operators == {"exists", "not_exists", "==", "!=", ">", ">=", "<", "<="}

\* A Condition; ids are left out (they are random and never read by the
\* compiler); negated undefined and negated false are one value.
Condition(field, operator, value, negated) ==
  [type |-> "condition", field |-> field, operator |-> operator,
   value |-> value, negated |-> negated]

\* A ConditionGroup.
Group(logic, items, negated) ==
  [type |-> "group", logic |-> logic, items |-> items, negated |-> negated]

\* The null that parseExpression and parseCondition return on failure.
Null == [type |-> "null"]

isCondition(item) == item.type = "condition"

\* The Selection { type: 'none', id: null } of the machine builder.
NoSelection == [type |-> "none", id |-> ""]

(***************************************************************************)
(* Part 3.  Expression serializer (GuardBuilder.tsx)                       *)
(***************************************************************************)

CTX == <<"c", "t", "x", ".">>
TRUE_ == <<"t", "r", "u", "e">>
FALSE_ == <<"f", "a", "l", "s", "e">>
NULL_ == <<"n", "u", "l", "l">>
UNDEFINED_ == <<"u", "n", "d", "e", "f", "i", "n", "e", "d">>
NAN_ == <<"N", "a", "N">>

\* String(v), also what a template literal `${v}` inserts.  A number is
\* written in decimal: the model's numbers stay within the range in which
\* JavaScript uses no exponent (1e-7 <= |v| < 1e21).
String(v) ==
  CASE v.t = "string" -> v.s
    [] v.t = "number" ->
         (IF v.neg THEN <<"-">> ELSE <<>>) \o NatToDigits(v.int)
           \o (IF v.frac = <<>> THEN <<>> ELSE <<".">> \o v.frac)
    [] v.t = "boolean" -> (IF v.b THEN TRUE_ ELSE FALSE_)
    [] v.t = "null" -> NULL_
    [] v.t = "NaN" -> NAN_
    [] OTHER -> UNDEFINED_

formatValue(v) ==
  IF v.t = "null" THEN NULL_
  ELSE IF v.t = "string" THEN <<"\"">> \o v.s \o <<"\"">>
  ELSE IF v.t = "boolean" THEN String(v)
  ELSE String(v)

conditionToString(c) ==
  LET field == CTX \o c.field
      expr ==
        CASE c.operator = "exists" -> field
          [] c.operator = "not_exists" -> <<"!">> \o field
          [] c.operator = "==" -> field \o <<" ", "=", "=", " ">> \o formatValue(c.value)
          [] c.operator = "!=" -> field \o <<" ", "!", "=", " ">> \o formatValue(c.value)
          [] c.operator = ">" -> field \o <<" ", ">", " ">> \o String(c.value)
          [] c.operator = ">=" -> field \o <<" ", ">", "=", " ">> \o String(c.value)
          [] c.operator = "<" -> field \o <<" ", "<", " ">> \o String(c.value)
          [] c.operator = "<=" -> field \o <<" ", "<", "=", " ">> \o String(c.value)
          [] OTHER -> field
  IN (IF c.negated THEN <<"!", "(">> ELSE <<>>) \o expr \o (IF c.negated THEN <<")">> ELSE <<>>)

isRootWithSingleCondition(group) ==
  Len(group.items) = 1 /\ isCondition(group.items[1]) /\ ~group.negated

fieldNotBlank(item) == Trim(item.field) # <<>>

joinerOf(group) ==
  IF group.logic = "and" THEN <<" ", "&", "&", " ">> ELSE <<" ", "|", "|", " ">>

RECURSIVE itemToString(_)
RECURSIVE groupToString(_)
itemToString(item) ==
  IF isCondition(item) THEN conditionToString(item) ELSE groupToString(item)

groupToString(group) ==
  LET valid(item) == IF isCondition(item) THEN fieldNotBlank(item) ELSE TRUE
      validItems == SelectSeq(group.items, valid)
      parts == [i \in 1..Len(validItems) |-> itemToString(validItems[i])]
      wrap == (Len(validItems) > 1 \/ group.negated) /\ ~isRootWithSingleCondition(group)
  IN IF Len(validItems) = 0 THEN <<>>
     ELSE (IF group.negated THEN <<"!">> ELSE <<>>)
            \o (IF wrap THEN <<"(">> ELSE <<>>)
            \o Join(parts, joinerOf(group))
            \o (IF wrap THEN <<")">> ELSE <<>>)

RECURSIVE hasValidConditions(_)
hasValidConditions(group) ==
  \E i \in 1..Len(group.items) :
    IF isCondition(group.items[i]) THEN fieldNotBlank(group.items[i])
    ELSE hasValidConditions(group.items[i])

generateExpression(group) ==
  LET valid(item) == IF isCondition(item) THEN fieldNotBlank(item) ELSE hasValidConditions(item)
      validItems == SelectSeq(group.items, valid)
      parts == [i \in 1..Len(validItems) |-> itemToString(validItems[i])]
  IN IF Len(validItems) = 0 THEN <<>>
     ELSE (IF group.negated THEN <<"!", "(">> ELSE <<>>)
            \o Join(parts, joinerOf(group))
            \o (IF group.negated THEN <<")">> ELSE <<>>)

(***************************************************************************)
(* Part 4.  Expression parser (GuardBuilder.tsx)                           *)
(***************************************************************************)

\* parseFloat(raw): optional sign, then digits with an optional fraction, or
\* a fraction alone; whatever follows that prefix is ignored.  The texts of
\* the model carry no exponent part and no "Infinity".
floatValue(neg, intDigits, fracDigits) ==
  IF intDigits = <<>> /\ fracDigits = <<>> THEN NaN
  ELSE Num(neg, DigitsToNat(intDigits), StripTrailingZeros(fracDigits))

\* The number read from s[i0..]: ie is the last index of the integer digits.
floatDigits(s, neg, i0, ie) ==
  LET hasDot == ie + 1 <= Len(s) /\ s[ie + 1] = "."
  IN floatValue(neg, SubSeq(s, i0, ie),
                IF hasDot THEN SubSeq(s, ie + 2, RunEnd(s, ie + 2, Digits)) ELSE <<>>)

floatSigned(s, signed) ==
  floatDigits(s, signed /\ s[1] = "-", IF signed THEN 2 ELSE 1,
              RunEnd(s, IF signed THEN 2 ELSE 1, Digits))

floatTrimmed(s) == floatSigned(s, Len(s) > 0 /\ s[1] \in {"-", "+"})

parseFloat(raw) == floatTrimmed(Trim(raw))

\* const num = parseFloat(raw); if (!isNaN(num)) return num; return raw
numberOrRaw(num, raw) == IF num.t # "NaN" THEN num ELSE Str(raw)

\* parseValue without its true / false cases.
parseValue_NoBoolean(raw) ==
  IF raw = NULL_ THEN NullV
  ELSE IF StartsWith(raw, <<"\"">>) /\ EndsWith(raw, <<"\"">>) THEN Str(SliceToLast(raw, 1))
  ELSE numberOrRaw(parseFloat(raw), raw)

parseValue(raw) ==
  IF raw = NULL_ THEN NullV
  ELSE IF raw = TRUE_ THEN Bool(TRUE)
  ELSE IF raw = FALSE_ THEN Bool(FALSE)
  ELSE IF StartsWith(raw, <<"\"">>) /\ EndsWith(raw, <<"\"">>) THEN Str(SliceToLast(raw, 1))
  ELSE numberOrRaw(parseFloat(raw), raw)

\* Last index of the longest match of \w+(?:\.\w+)* starting at index i of s;
\* 0 when nothing matches there.
RECURSIVE FieldEnd(_, _)
FieldEnd(s, i) ==
  LET e == RunEnd(s, i, WordChars)
  IN IF e < i THEN 0
     ELSE IF e + 1 <= Len(s) /\ s[e + 1] = "." /\ FieldEnd(s, e + 2) # 0
     THEN FieldEnd(s, e + 2)
     ELSE e

\* The comparison operators in the order of the regex alternation.
CmpOps ==
  << <<"=", "=">>, <<"!", "=">>, <<">", "=">>, <<"<", "=">>, <<">">>, <<"<">> >>

NoMatch == [ok |-> FALSE, field |-> <<>>, op |-> <<>>, rawValue |-> <<>>]

\* s without its leading whitespace (what \s* consumes).
SkipWs(s) == SubSeq(s, RunEnd(s, 1, Ws) + 1, Len(s))

\* \s*(.+)$ on rest: the value is rest with its leading whitespace skipped,
\* unless rest is whitespace only, which (.+) then keeps.
matchValue(field, op, rest) ==
  [ok |-> TRUE, field |-> field, op |-> op,
   rawValue |-> IF SkipWs(rest) = <<>> THEN rest ELSE SkipWs(rest)]

\* (==|!=|>=|<=|>|<) at the head of r: the first alternative that leaves at
\* least one character for (.+) wins.
matchOperator(field, r) ==
  LET fits == {k \in 1..Len(CmpOps) : StartsWith(r, CmpOps[k]) /\ Len(r) > Len(CmpOps[k])}
  IN IF fits = {} THEN NoMatch
     ELSE matchValue(field, CmpOps[SetMin(fits)],
                     SubSeq(r, Len(CmpOps[SetMin(fits)]) + 1, Len(r)))

matchAfterField(expr, fe) ==
  IF fe = 0 THEN NoMatch
  ELSE matchOperator(SubSeq(expr, 5, fe), SkipWs(SubSeq(expr, fe + 1, Len(expr))))

\* expr.match(/^ctx\.(\w+(?:\.\w+)*)\s*(==|!=|>=|<=|>|<)\s*(.+)$/) as
\* [ok, field, op, rawValue].
comparisonMatch(expr) ==
  IF StartsWith(expr, CTX) THEN matchAfterField(expr, FieldEnd(expr, 5)) ELSE NoMatch

\* The Operator named by the characters of a comparison operator.
OpName(chars) ==
  CASE chars = <<"=", "=">> -> "=="
    [] chars = <<"!", "=">> -> "!="
    [] chars = <<">", "=">> -> ">="
    [] chars = <<"<", "=">> -> "<="
    [] chars = <<">">> -> ">"
    [] OTHER -> "<"

\* The condition of a comparison match, null without one.
comparisonCondition(cmp, negated) ==
  IF cmp.ok
  THEN Condition(cmp.field, OpName(cmp.op), parseValue(Trim(cmp.rawValue)), negated)
  ELSE Null

\* The three regex matches of parseCondition on expr, in their order.
matchCondition(expr, negated) ==
  IF StartsWith(expr, <<"!">> \o CTX) /\ Len(expr) > 5 /\ FieldEnd(expr, 6) = Len(expr)
  THEN Condition(SubSeq(expr, 6, Len(expr)), "not_exists", Undef, negated)
  ELSE IF StartsWith(expr, CTX) /\ Len(expr) > 4 /\ FieldEnd(expr, 5) = Len(expr)
  THEN Condition(SubSeq(expr, 5, Len(expr)), "exists", Undef, negated)
  ELSE comparisonCondition(comparisonMatch(expr), negated)

\* expr.startsWith('!(') && expr.endsWith(')')
hasNegation(expr) == StartsWith(expr, <<"!", "(">>) /\ EndsWith(expr, <<")">>)

parseTrimmed(trimmed) ==
  matchCondition(IF hasNegation(trimmed) THEN SliceToLast(trimmed, 2) ELSE trimmed,
                 hasNegation(trimmed))

parseCondition(part) == parseTrimmed(Trim(part))

\* The loop over the parts: null as soon as one part is no condition.
parsedGroup(logic, items) ==
  IF \E i \in 1..Len(items) : items[i] = Null THEN Null
  ELSE Group(logic, items, FALSE)

parseParts(parts) == [i \in 1..Len(parts) |-> parseCondition(parts[i])]

parseExpression(expr) ==
  LET hasAnd == Includes(expr, <<"&", "&">>)
      hasOr == Includes(expr, <<"|", "|">>)
      logic == IF hasOr /\ ~hasAnd THEN "or" ELSE "and"
      separator == IF logic = "or" THEN <<"|", "|">> ELSE <<"&", "&">>
  IN IF Trim(expr) = <<>> THEN Null
     ELSE IF hasAnd /\ hasOr /\ ~Includes(expr, <<"(">>) THEN Null
     ELSE parsedGroup(logic, parseParts(Split(expr, separator)))

(***************************************************************************)
(* Part 5.  Definition <-> graph converter (lib/machine-builder/           *)
(*          conversion.ts)                                                 *)
(*                                                                         *)
(* State names, event names and guards are TLA+ strings.  An optional      *)
(* string (guard?: string) is <<>> when undefined and <<g>> when it is the *)
(* string g.  A transition's `from` is [arr, names]: arr tells an array    *)
(* from a single name.  An object used as a map (meta, BuilderPositions)   *)
(* is a function on its keys; an undefined meta is the empty function,     *)
(* which the code treats as {}.                                            *)
(***************************************************************************)

NODE_SPACING_X == 180
NODE_SPACING_Y == 100

EmptyObject == [k \in {} |-> 0]

Position(x, y) == [x |-> x, y |-> y]

\* `${from}-${event}-${to}`
generateEdgeId(from, to, event) == from \o "-" \o event \o "-" \o to

\* The stored positions left unread: every node takes its grid position.
getStoredPositions_None(definition) == EmptyObject

\* (definition.meta?._builderPositions as BuilderPositions) || {}
getStoredPositions(definition) ==
  IF "_builderPositions" \in DOMAIN definition.meta
  THEN definition.meta["_builderPositions"]
  ELSE EmptyObject

\* Math.ceil(Math.sqrt(n))
CeilSqrt(n) == SetMin({c \in 0..n : c * c >= n})

\* The position calculateDefaultPositions leaves under key `state`: the one
\* of the last index holding that name.
calculateDefaultPositions(states) ==
  LET cols == CeilSqrt(Len(states))
      at(index) == Position((index % cols) * NODE_SPACING_X + 50,
                            (index \div cols) * NODE_SPACING_Y + 50)
  IN [state \in {states[i] : i \in 1..Len(states)} |->
        at(SetMax({i \in 1..Len(states) : states[i] = state}) - 1)]

\* A node that never carries the initial flag.
StateNode_NeverInitial(id, position, label, isInitial) ==
  [id |-> id, type |-> "state", position |-> position,
   data |-> [label |-> label, isInitial |-> FALSE]]

StateNode(id, position, label, isInitial) ==
  [id |-> id, type |-> "state", position |-> position,
   data |-> [label |-> label, isInitial |-> isInitial]]

TransitionEdge(id, source, target, event, guard, fromStates) ==
  [id |-> id, source |-> source, target |-> target, type |-> "transition",
   data |-> [event |-> event, guard |-> guard, fromStates |-> fromStates]]

\* Array.isArray(transition.from) ? transition.from : [transition.from]
fromStatesOf(transition) == transition.from.names

\* The (fromState, transition) pairs in the order the two nested forEach
\* loops of definitionToFlow visit them.
RECURSIVE Expand(_)
Expand(transitions) ==
  IF Len(transitions) = 0 THEN <<>>
  ELSE [i \in 1..Len(fromStatesOf(transitions[1])) |->
          [fromState |-> fromStatesOf(transitions[1])[i], transition |-> transitions[1]]]
       \o Expand(Tail(transitions))

\* `${fromState}->${transition.to}`
existingKey(fromState, to) == fromState \o "->" \o to

\* The inner loop body without the edgeMap lookup: every pair adds an edge.
edgeStep_NoMerge(acc, fromState, transition) ==
  [edges |-> Append(acc.edges,
                    TransitionEdge(generateEdgeId(fromState, transition.to, transition.event),
                                   fromState, transition.to, transition.event,
                                   transition.guard, <<fromState>>)),
   keys |-> Append(acc.keys, existingKey(fromState, transition.to))]

\* One pass of the inner loop body: acc is [edges, keys], keys[i] being the
\* edgeMap key under which edges[i] was stored.
edgeStep(acc, fromState, transition) ==
  LET key == existingKey(fromState, transition.to)
      found == {i \in 1..Len(acc.keys) : acc.keys[i] = key}
      i == SetMin(found)
      existing == acc.edges[i]
  IN IF found # {}
     THEN [acc EXCEPT !.edges[i].data =
             [event |-> existing.data.event \o ", " \o transition.event,
              guard |-> existing.data.guard,
              fromStates |-> Append(existing.data.fromStates, fromState)]]
     ELSE [edges |-> Append(acc.edges,
                            TransitionEdge(generateEdgeId(fromState, transition.to, transition.event),
                                           fromState, transition.to, transition.event,
                                           transition.guard, <<fromState>>)),
           keys |-> Append(acc.keys, key)]

RECURSIVE edgeFold(_, _)
edgeFold(acc, pairs) ==
  IF Len(pairs) = 0 THEN acc
  ELSE edgeFold(edgeStep(acc, pairs[1].fromState, pairs[1].transition), Tail(pairs))

definitionToFlow(definition) ==
  LET storedPositions == getStoredPositions(definition)
      defaultPositions == calculateDefaultPositions(definition.states)
      positionOf(state) ==
        IF state \in DOMAIN storedPositions THEN storedPositions[state]
        ELSE IF state \in DOMAIN defaultPositions THEN defaultPositions[state]
        ELSE Position(0, 0)
      nodes == [i \in 1..Len(definition.states) |->
                  StateNode(definition.states[i], positionOf(definition.states[i]),
                            definition.states[i], definition.states[i] = definition.initial)]
  IN [nodes |-> nodes,
      edges |-> edgeFold([edges |-> <<>>, keys |-> <<>>], Expand(definition.transitions)).edges]

\* nodes.find that gives the first node when no node has the id.
findNode_First(nodes, id) ==
  LET hits == {i \in 1..Len(nodes) : nodes[i].id = id}
  IN IF hits # {} THEN <<nodes[SetMin(hits)]>>
     ELSE IF Len(nodes) = 0 THEN <<>> ELSE <<nodes[1]>>

\* nodes.find((n) => n.id === id) as a sequence: <<>> or <<node>>.
findNode(nodes, id) ==
  LET hits == {i \in 1..Len(nodes) : nodes[i].id = id}
  IN IF hits = {} THEN <<>> ELSE <<nodes[SetMin(hits)]>>

\* `${edge.data.event}->${toNode.data.label}`
transitionKey(event, toLabel) == event \o "->" \o toLabel

Contains(seq, x) == \E i \in 1..Len(seq) : seq[i] = x

\* One pass of the edges.forEach body of flowToDefinition: tmap is the
\* transitionMap as its entries in insertion order.
transitionStep(tmap, nodes, edge) ==
  LET fromNode == findNode(nodes, edge.source)
      toNode == findNode(nodes, edge.target)
      key == transitionKey(edge.data.event, toNode[1].data.label)
      found == {i \in 1..Len(tmap) : tmap[i].key = key}
      i == SetMin(found)
  IN IF fromNode = <<>> \/ toNode = <<>> THEN tmap
     ELSE IF found # {}
     THEN IF Contains(tmap[i].fromStates, fromNode[1].data.label) THEN tmap
          ELSE [tmap EXCEPT ![i].fromStates = Append(@, fromNode[1].data.label)]
     ELSE Append(tmap, [key |-> key, fromStates |-> <<fromNode[1].data.label>>,
                        event |-> edge.data.event, to |-> toNode[1].data.label,
                        guard |-> edge.data.guard])

RECURSIVE transitionFold(_, _, _)
transitionFold(tmap, nodes, edges) ==
  IF Len(edges) = 0 THEN tmap
  ELSE transitionFold(transitionStep(tmap, nodes, edges[1]), nodes, Tail(edges))

\* A value of the optional string guard is truthy: defined and not "".
Truthy(opt) == opt # <<>> /\ opt[1] # ""

Transition(from, event, to, guard) ==
  [from |-> from, event |-> event, to |-> to, guard |-> guard]

flowToDefinition(nodes, edges, existingMeta) ==
  LET states == [i \in 1..Len(nodes) |-> nodes[i].data.label]
      flagged == {i \in 1..Len(nodes) : nodes[i].data.isInitial}
      initial ==
        IF flagged # {} /\ nodes[SetMin(flagged)].data.label # ""
        THEN nodes[SetMin(flagged)].data.label
        ELSE IF Len(states) > 0 /\ states[1] # "" THEN states[1]
        ELSE ""
      tmap == transitionFold(<<>>, nodes, edges)
      transitions ==
        [i \in 1..Len(tmap) |->
           Transition([arr |-> Len(tmap[i].fromStates) # 1, names |-> tmap[i].fromStates],
                      tmap[i].event, tmap[i].to,
                      IF Truthy(tmap[i].guard) THEN tmap[i].guard ELSE <<>>)]
      builderPositions ==
        [label \in {nodes[i].data.label : i \in 1..Len(nodes)} |->
           nodes[SetMax({i \in 1..Len(nodes) : nodes[i].data.label = label})].position]
      meta == [k \in DOMAIN existingMeta \cup {"_builderPositions"} |->
                 IF k = "_builderPositions" THEN builderPositions ELSE existingMeta[k]]
  IN [states |-> states, initial |-> initial, transitions |-> transitions, meta |-> meta]

\* !s.trim() for the names and events of the model: the empty string and
\* the string of one space are the blank ones.
isBlank(s) == s \in {"", " "}

\* parts.join(sep) on strings.
RECURSIVE JoinStrings(_, _)
JoinStrings(parts, sep) ==
  IF Len(parts) = 0 THEN ""
  ELSE IF Len(parts) = 1 THEN parts[1]
  ELSE parts[1] \o sep \o JoinStrings(Tail(parts), sep)

\* [...new Set(seq)]: the elements in the order of their first occurrence.
RECURSIVE NewSet(_)
NewSet(seq) ==
  IF Len(seq) = 0 THEN <<>>
  ELSE IF Contains(SubSeq(seq, 1, Len(seq) - 1), seq[Len(seq)])
  THEN NewSet(SubSeq(seq, 1, Len(seq) - 1))
  ELSE Append(NewSet(SubSeq(seq, 1, Len(seq) - 1)), seq[Len(seq)])

\* names.indexOf(name) !== index
notFirstOccurrence(names, index) == \E j \in 1..(index - 1) : names[j] = names[index]

\* names.filter((name, index) => names.indexOf(name) !== index)
duplicatesOf(names) ==
  [k \in 1..Len(SelectSeq([i \in 1..Len(names) |-> i], LAMBDA i : notFirstOccurrence(names, i))) |->
     names[SelectSeq([i \in 1..Len(names) |-> i], LAMBDA i : notFirstOccurrence(names, i))[k]]]

\* The checks of validateBuilderState on a graph that is not empty, each as
\* the messages it pushes.
initialErrors(nodes) ==
  IF \E i \in 1..Len(nodes) : nodes[i].data.isInitial THEN <<>>
  ELSE <<"State machine must have an initial state">>

\* The count of flagged nodes is never found above one.
multipleInitialErrors_Never(nodes) == <<>>

multipleInitialErrors(nodes) ==
  IF Cardinality({i \in 1..Len(nodes) : nodes[i].data.isInitial}) > 1
  THEN <<"State machine can only have one initial state">>
  ELSE <<>>

duplicateErrors(duplicates) ==
  IF Len(duplicates) > 0
  THEN <<"Duplicate state names: " \o JoinStrings(NewSet(duplicates), ", ")>>
  ELSE <<>>

emptyNameErrors(nodes) ==
  IF \E i \in 1..Len(nodes) : isBlank(nodes[i].data.label)
  THEN <<"All states must have a name">>
  ELSE <<>>

\* connectedStates.has(id)
connected(edges, id) ==
  \E k \in 1..Len(edges) : edges[k].source = id \/ edges[k].target = id

orphanWarning(node) == "State \"" \o node.data.label \o "\" has no transitions"

\* The initial flag left unread: an initial state without edges is warned
\* about too.
orphanWarnings_InitialToo(nodes, edges) ==
  [k \in 1..Len(SelectSeq(nodes, LAMBDA n : ~connected(edges, n.id))) |->
     orphanWarning(SelectSeq(nodes, LAMBDA n : ~connected(edges, n.id))[k])]

orphanWarnings(nodes, edges) ==
  [k \in 1..Len(SelectSeq(nodes, LAMBDA n : ~n.data.isInitial /\ ~connected(edges, n.id))) |->
     orphanWarning(SelectSeq(nodes, LAMBDA n : ~n.data.isInitial /\ ~connected(edges, n.id))[k])]

eventError(edge) ==
  "Transition from \"" \o edge.source \o "\" to \"" \o edge.target \o "\" has no event name"

eventErrors(edges) ==
  [k \in 1..Len(SelectSeq(edges, LAMBDA e : isBlank(e.data.event))) |->
     eventError(SelectSeq(edges, LAMBDA e : isBlank(e.data.event))[k])]

validationResult(errors, warnings) ==
  [valid |-> Len(errors) = 0, errors |-> errors, warnings |-> warnings]

validateBuilderState(nodes, edges) ==
  IF Len(nodes) = 0
  THEN [valid |-> FALSE,
        errors |-> <<"State machine must have at least one state">>,
        warnings |-> <<>>]
  ELSE validationResult(
         initialErrors(nodes) \o multipleInitialErrors(nodes)
           \o duplicateErrors(duplicatesOf([i \in 1..Len(nodes) |-> nodes[i].data.label]))
           \o emptyNameErrors(nodes) \o eventErrors(edges),
         orphanWarnings(nodes, edges))

(***************************************************************************)
(* Part 6.  State                                                          *)
(***************************************************************************)

VARIABLES
  src,      \* parser run: the clauses and separators the guard text is written from
  text,     \* parser run: the guard text handed to parseExpression
  tree,     \* parser run: parseExpression(text)
  out,      \* parser run: generateExpression(tree)
  tree2,    \* parser run: parseExpression(out)
  pcond,    \* parser run: parseCondition(text) of a one-clause text
  gpc,      \* parser run: "text" -> "parsed" -> "generated" -> "reparsed", or "text" -> "clause"
  cond,     \* serializer run: the Condition handed to conditionToString
  condText, \* serializer run: conditionToString(cond)
  spc,      \* serializer run: "cond" -> "written"
  gbValue,  \* guard builder: the value prop (GuardBuilderModal's localValue), <<>> when undefined
  gbGroup,  \* guard builder: the condition tree GuardBuilderContent holds
  gbBuilt,  \* guard builder: the tree last handed to handleGroupUpdate
  gbExpr,   \* guard builder: generateExpression of that tree
  gbMode,   \* guard builder: "visual" or "raw"
  gbRaw,    \* guard builder: rawValue, the text of the raw textarea
  gmOpen,   \* guard modal: isGuardModalOpen
  tpGuard,  \* transition panel: its guard state ('' is <<>>)
  edgeGuard, \* transition panel: the guard last handed to onUpdateGuard (undefined is <<>>)
  def,      \* converter run: the MachineDefinition loaded
  flow,     \* converter run: definitionToFlow(def)
  def2,     \* converter run: flowToDefinition(flow.nodes, flow.edges, def.meta)
  cpc,      \* converter run: "def" -> "flow" -> "back"
  vNodes,   \* validator run: the nodes of the graph in the editor
  vEdges,   \* validator run: its edges
  validation, \* validator run: validateBuilderState(vNodes, vEdges)
  vDef,     \* validator run: flowToDefinition(vNodes, vEdges, undefined)
  vpc,      \* validator run: "graph" -> "validated" -> "defined"
  hkNodes,  \* editor hook: the nodes state
  hkEdges,  \* editor hook: the edges state
  hkSeenNodes, \* editor hook: the nodes its callbacks were created with
  hkSeenEdges, \* editor hook: the edges its callbacks were created with
  hkTimers, \* editor hook: the setTimeout callbacks not run yet, oldest first
  hkDelivered, \* editor hook: the last call of onChange
  hkMutations, \* editor hook: how many mutations were made
  hkSelection, \* editor hook: the selection state
  hkSeenSelection, \* editor hook: the selection its callbacks were created with
  hkChanged, \* editor hook: the number of the last operation that changed the graph
  hkCall,   \* editor hook: the renameState call the last operation was, or null
  pgInitial, \* page: initialDefinition, the version loaded from the server
  pgDefinition, \* page: the definition state
  pgEditor, \* page: editorValue, the text of the JSON editor
  pgViewMode, \* page: "visual" or "json"
  pgResult, \* page: validationResult, with the definition it was computed for
  pgPending, \* page: the definition of the validate request in flight
  pgSaved,  \* page: the createVersion request issued
  pgNodes,  \* page: the nodes of the builder it shows
  pgEdges,  \* page: its edges
  pgMeta,   \* page: the builder's metaRef.current
  pgLastSent, \* page: the builder's lastSentDefinitionRef.current
  pgTimer,  \* page: the builder's setTimeout callback not run yet
  pgOps,    \* page: how many operations the user made
  pgLoads,  \* page: how many times loadDefinition ran
  pgOnlyLayout \* page: every edit since the load only moved nodes

parseVars == <<src, text, tree, out, tree2, pcond, gpc>>
serializeVars == <<cond, condText, spc>>
builderVars == <<gbValue, gbGroup, gbBuilt, gbExpr, gbMode, gbRaw>>
modalVars == <<gmOpen, tpGuard, edgeGuard>>
convVars == <<def, flow, def2, cpc>>
graphVars == <<vNodes, vEdges, validation, vDef, vpc>>
hookVars ==
  <<hkNodes, hkEdges, hkSeenNodes, hkSeenEdges, hkTimers, hkDelivered, hkMutations,
    hkSelection, hkSeenSelection, hkChanged, hkCall>>
pageVars ==
  <<pgInitial, pgDefinition, pgEditor, pgViewMode, pgResult, pgPending, pgSaved,
    pgNodes, pgEdges, pgMeta, pgLastSent, pgTimer, pgOps, pgLoads, pgOnlyLayout>>
vars ==
  <<src, text, tree, out, tree2, pcond, gpc, cond, condText, spc,
    gbValue, gbGroup, gbBuilt, gbExpr, gbMode, gbRaw, gmOpen, tpGuard, edgeGuard,
    def, flow, def2, cpc, vNodes, vEdges, validation, vDef, vpc,
    hkNodes, hkEdges, hkSeenNodes, hkSeenEdges, hkTimers, hkDelivered, hkMutations,
    hkSelection, hkSeenSelection, hkChanged, hkCall,
    pgInitial, pgDefinition, pgEditor, pgViewMode, pgResult, pgPending, pgSaved,
    pgNodes, pgEdges, pgMeta, pgLastSent, pgTimer, pgOps, pgLoads, pgOnlyLayout>>

\* What each run leaves alone: the variables of the other runs.
othersOfParse == <<serializeVars, builderVars, modalVars, convVars, graphVars, hookVars, pageVars>>
othersOfSerialize == <<parseVars, builderVars, modalVars, convVars, graphVars, hookVars, pageVars>>
othersOfBuilder == <<parseVars, serializeVars, modalVars, convVars, graphVars, hookVars, pageVars>>
othersOfModal == <<parseVars, serializeVars, convVars, graphVars, hookVars, pageVars>>
othersOfConv == <<parseVars, serializeVars, builderVars, modalVars, graphVars, hookVars, pageVars>>
othersOfGraph == <<parseVars, serializeVars, builderVars, modalVars, convVars, hookVars, pageVars>>
othersOfHook == <<parseVars, serializeVars, builderVars, modalVars, convVars, graphVars, pageVars>>
othersOfPage ==
  <<parseVars, serializeVars, builderVars, modalVars, convVars, graphVars, hookVars>>

\* A run that is not part of the specification being checked stays idle.
IdleParse ==
  /\ src = <<>> /\ text = <<>> /\ tree = Null /\ out = <<>> /\ tree2 = Null
  /\ pcond = Null /\ gpc = "idle"
IdleSerialize == cond = Null /\ condText = <<>> /\ spc = "idle"
IdleBuilder ==
  /\ gbValue = <<>> /\ gbGroup = Null /\ gbBuilt = Null /\ gbExpr = <<>>
  /\ gbMode = "visual" /\ gbRaw = <<>>
IdleModal == gmOpen = FALSE /\ tpGuard = <<>> /\ edgeGuard = <<>>
IdleConv == def = Null /\ flow = Null /\ def2 = Null /\ cpc = "idle"
IdleGraph ==
  vNodes = <<>> /\ vEdges = <<>> /\ validation = Null /\ vDef = Null /\ vpc = "idle"
IdleHook ==
  /\ hkNodes = <<>> /\ hkEdges = <<>> /\ hkSeenNodes = <<>> /\ hkSeenEdges = <<>>
  /\ hkTimers = <<>> /\ hkDelivered = Null /\ hkMutations = 0
  /\ hkSelection = NoSelection /\ hkSeenSelection = NoSelection /\ hkChanged = 0
  /\ hkCall = Null
IdlePage ==
  /\ pgInitial = Null /\ pgDefinition = Null /\ pgEditor = Null /\ pgViewMode = "idle"
  /\ pgResult = Null /\ pgPending = Null /\ pgSaved = Null
  /\ pgNodes = <<>> /\ pgEdges = <<>> /\ pgMeta = Null /\ pgLastSent = Null
  /\ pgTimer = Null /\ pgOps = 0 /\ pgLoads = 0 /\ pgOnlyLayout = TRUE

(***************************************************************************)
(* Part 7.  Guard texts handed to the parser                               *)
(***************************************************************************)

\* Bounds of the parser's inputs.
MaxClauses == 3
MaxFieldSegments == 2

\* A literal as written after a comparison operator: its text, the value
\* the guard grammar gives it, and whether the text is the form the
\* serializer is specified to write for that value.  A text parses as a
\* floating-point number when it begins with one (5x is the number 5).
Lit(kind, txt, value, canonical) ==
  [kind |-> kind, text |-> txt, value |-> value, canonical |-> canonical]

Quote(s) == <<"\"">> \o s \o <<"\"">>

Lits ==
  { Lit("quoted", Quote(<<"x">>), Str(<<"x">>), TRUE),
    Lit("quoted", Quote(<<"5">>), Str(<<"5">>), TRUE),
    Lit("quoted", Quote(<<"x", "|", "|", "y">>), Str(<<"x", "|", "|", "y">>), TRUE),
    Lit("number", <<"5">>, Num(FALSE, 5, <<>>), TRUE),
    Lit("number", <<"-", "2">>, Num(TRUE, 2, <<>>), TRUE),
    Lit("number", <<"1", ".", "5", "0">>, Num(FALSE, 1, <<"5">>), FALSE),
    Lit("boolean", TRUE_, Bool(TRUE), TRUE),
    Lit("boolean", FALSE_, Bool(FALSE), TRUE),
    Lit("null", NULL_, NullV, TRUE),
    Lit("bare", <<"x">>, Str(<<"x">>), FALSE),
    Lit("prefixed", <<"5", "x">>, Num(FALSE, 5, <<>>), FALSE) }

NoLit == Lit("none", <<>>, Undef, TRUE)

\* Dot paths of at most MaxFieldSegments names.
Fields ==
  {<<"a">>, <<"b">>} \cup
  (IF MaxFieldSegments >= 2 THEN {<<"a", ".", "b", "_", "1">>} ELSE {}) \cup
  (IF MaxFieldSegments >= 3 THEN {<<"a", ".", "b", ".", "c">>} ELSE {})

CmpOperators == {"==", "!=", ">", ">=", "<", "<="}

\* The characters of an operator name.
OpText(operator) ==
  CASE operator = "==" -> <<"=", "=">>
    [] operator = "!=" -> <<"!", "=">>
    [] operator = ">=" -> <<">", "=">>
    [] operator = "<=" -> <<"<", "=">>
    [] operator = ">" -> <<">">>
    [] OTHER -> <<"<">>

\* The text the guard grammar and the serializer's contract give an atom:
\* ctx.<field>, !ctx.<field>, or ctx.<field> <op> <literal>.
AtomText(field, operator, litText) ==
  CASE operator = "exists" -> CTX \o field
    [] operator = "not_exists" -> <<"!">> \o CTX \o field
    [] OTHER -> CTX \o field \o <<" ">> \o OpText(operator) \o <<" ">> \o litText

\* A clause of a guard text: a well-formed atom, a negated atom !(atom), or
\* malformed text.
Clause(kind, field, operator, lit, txt) ==
  [kind |-> kind, field |-> field, operator |-> operator, lit |-> lit, text |-> txt]

Atoms ==
  {Clause("atom", f, "exists", NoLit, AtomText(f, "exists", <<>>)) : f \in Fields}
  \cup {Clause("atom", f, "not_exists", NoLit, AtomText(f, "not_exists", <<>>)) : f \in Fields}
  \cup {Clause("atom", f, o, l, AtomText(f, o, l.text)) :
          f \in {<<"a">>}, o \in CmpOperators, l \in Lits}

NegAtoms ==
  {Clause("neg", a.field, a.operator, a.lit, <<"!", "(">> \o a.text \o <<")">>) : a \in Atoms}

Bad(txt) == Clause("bad", <<>>, "", NoLit, txt)

\* Malformed clauses: an empty side, a comparison without its right side,
\* unmatched parentheses, something that is no atom.
BadClauses ==
  { Bad(<<>>),
    Bad(CTX \o <<"a", " ", "=", "=">>),
    Bad(CTX \o <<"a", " ", ">", "=">>),
    Bad(<<"(">> \o CTX \o <<"a">>),
    Bad(CTX \o <<"a", ")">>),
    Bad(<<"!", "(">> \o CTX \o <<"a">>),
    Bad(CTX),
    Bad(<<"a">>),
    Bad(CTX \o <<"a", " ", "=", " ", "5">>) }

Clauses == Atoms \cup NegAtoms \cup BadClauses

AtomOf(field, operator, lit) ==
  Clause("atom", field, operator, lit,
         AtomText(field, operator, IF operator \in CmpOperators THEN lit.text ELSE <<>>))

NegOf(a) == Clause("neg", a.field, a.operator, a.lit, <<"!", "(">> \o a.text \o <<")">>)

Lit1 == Lit("number", <<"1">>, Num(FALSE, 1, <<>>), TRUE)
LitX == Lit("bare", <<"x">>, Str(<<"x">>), FALSE)
LitQ == Lit("quoted", Quote(<<"x">>), Str(<<"x">>), TRUE)

\* The clauses that follow a first clause in a longer text.
TailClauses ==
  { AtomOf(<<"b">>, "exists", NoLit),
    AtomOf(<<"b">>, "==", LitQ),
    NegOf(AtomOf(<<"b">>, "exists", NoLit)),
    Bad(<<>>) }

\* The clauses of the three-clause texts.
MixClauses ==
  { AtomOf(<<"a">>, "exists", NoLit),
    AtomOf(<<"b">>, "==", Lit1),
    AtomOf(<<"b">>, "==", LitX),
    NegOf(AtomOf(<<"b">>, "exists", NoLit)) }

Seps == {"and", "or"}

SepText(sep) == IF sep = "and" THEN <<" ", "&", "&", " ">> ELSE <<" ", "|", "|", " ">>

\* A guard text as written: shape "flat" is c1 s1 c2 ...; "neg_all" is
\* !(c1 s1 c2); "neg_first" is !(c1 s1 c2) s2 c3; "neg_last" is
\* c1 s1 !(c2 s2 c3).
Source(shape, clauses, seps) == [shape |-> shape, clauses |-> clauses, seps |-> seps]

Sources ==
  {Source("flat", <<c>>, <<>>) : c \in Clauses}
  \cup (IF MaxClauses >= 2
        THEN {Source("flat", <<c1, c2>>, <<s>>) : c1 \in Clauses, c2 \in TailClauses, s \in Seps}
             \cup {Source("neg_all", <<c1, c2>>, <<s>>) : c1 \in MixClauses, c2 \in MixClauses, s \in Seps}
        ELSE {})
  \cup (IF MaxClauses >= 3
        THEN {Source(sh, <<c1, c2, c3>>, <<s1, s2>>) :
                sh \in {"flat", "neg_first", "neg_last"},
                c1 \in MixClauses, c2 \in MixClauses, c3 \in MixClauses,
                s1 \in Seps, s2 \in Seps}
        ELSE {})
  \cup (IF MaxClauses >= 4
        THEN {Source("flat", <<c1, c2, c3, c3>>, <<s, s, s>>) :
                c1 \in MixClauses, c2 \in MixClauses, c3 \in MixClauses, s \in Seps}
        ELSE {})

RECURSIVE FlatText(_, _)
FlatText(clauses, seps) ==
  IF Len(clauses) = 1 THEN clauses[1].text
  ELSE clauses[1].text \o SepText(seps[1]) \o FlatText(Tail(clauses), Tail(seps))

TextOf(s) ==
  CASE s.shape = "flat" -> FlatText(s.clauses, s.seps)
    [] s.shape = "neg_all" -> <<"!", "(">> \o FlatText(s.clauses, s.seps) \o <<")">>
    [] s.shape = "neg_first" ->
         <<"!", "(">> \o FlatText(SubSeq(s.clauses, 1, 2), <<s.seps[1]>>) \o <<")">>
           \o SepText(s.seps[2]) \o s.clauses[3].text
    [] OTHER ->
         s.clauses[1].text \o SepText(s.seps[1])
           \o <<"!", "(">> \o FlatText(SubSeq(s.clauses, 2, 3), <<s.seps[2]>>) \o <<")">>

(***************************************************************************)
(* Part 8.  Parser run: text -> tree -> text -> tree                       *)
(***************************************************************************)

InitParse ==
  /\ src \in Sources
  /\ text = TextOf(src)
  /\ tree = Null /\ out = <<>> /\ tree2 = Null /\ pcond = Null
  /\ gpc = "text"
  /\ IdleSerialize /\ IdleBuilder /\ IdleModal /\ IdleConv /\ IdleGraph /\ IdleHook
  /\ IdlePage

\* parseExpression(text), as GuardBuilderContent does with its value.
ParseText ==
  /\ gpc = "text"
  /\ tree' = parseExpression(text)
  /\ gpc' = "parsed"
  /\ UNCHANGED <<src, text, out, tree2, pcond>>
  /\ UNCHANGED othersOfParse

\* generateExpression(tree) of a tree the parser returned.
GenerateText ==
  /\ gpc = "parsed"
  /\ tree # Null
  /\ out' = generateExpression(tree)
  /\ gpc' = "generated"
  /\ UNCHANGED <<src, text, tree, tree2, pcond>>
  /\ UNCHANGED othersOfParse

\* parseExpression of the generated text.
ReparseText ==
  /\ gpc = "generated"
  /\ tree2' = parseExpression(out)
  /\ gpc' = "reparsed"
  /\ UNCHANGED <<src, text, tree, out, pcond>>
  /\ UNCHANGED othersOfParse

\* parseCondition applied to a text of one clause.
ParseClause ==
  /\ gpc = "text"
  /\ Len(src.clauses) = 1
  /\ pcond' = parseCondition(text)
  /\ gpc' = "clause"
  /\ UNCHANGED <<src, text, tree, out, tree2>>
  /\ UNCHANGED othersOfParse

NextParse == ParseText \/ GenerateText \/ ReparseText \/ ParseClause

SpecParse == InitParse /\ [][NextParse]_vars

(***************************************************************************)
(* Part 9.  Serializer run: a Condition -> its text                        *)
(***************************************************************************)

\* The values a condition with a comparison operator carries: what
\* parseValue returns and what ConditionRow stores.
CondValues ==
  { Str(<<"x">>), Str(<<"5">>), Str(<<>>),
    Num(FALSE, 5, <<>>), Num(TRUE, 2, <<>>), Num(FALSE, 1, <<"5">>),
    Bool(TRUE), Bool(FALSE), NullV }

Conditions ==
  {Condition(f, o, Undef, n) : f \in Fields, o \in {"exists", "not_exists"}, n \in BOOLEAN}
  \cup {Condition(f, o, v, n) : f \in Fields, o \in CmpOperators, v \in CondValues, n \in BOOLEAN}

InitSerialize ==
  /\ cond \in Conditions
  /\ condText = <<>>
  /\ spc = "cond"
  /\ IdleParse /\ IdleBuilder /\ IdleModal /\ IdleConv /\ IdleGraph /\ IdleHook
  /\ IdlePage

\* conditionToString(cond), as itemToString calls it.
WriteCondition ==
  /\ spc = "cond"
  /\ condText' = conditionToString(cond)
  /\ spc' = "written"
  /\ UNCHANGED cond
  /\ UNCHANGED othersOfSerialize

NextSerialize == WriteCondition

SpecSerialize == InitSerialize /\ [][NextSerialize]_vars

(***************************************************************************)
(* Part 10. Converter run: definition -> graph -> definition               *)
(***************************************************************************)

\* Bounds of the definitions loaded.
MaxStates == 3
MaxTransitions == 2

\* State names; "a->a" holds the separator of the converter's map keys.
Names == <<"a", "b", "a->a", "c">>

SetMinOf(a, b) == IF a <= b THEN a ELSE b

StateLists == {SubSeq(Names, 1, n) : n \in 1..SetMinOf(MaxStates, Len(Names))}

Single(name) == [arr |-> FALSE, names |-> <<name>>]
Array(names) == [arr |-> TRUE, names |-> names]

\* What transitions leave: the state a, the state b, or the array [a, b].
FromsOf(states) ==
  IF Len(states) = 1 THEN <<Single("a")>>
  ELSE <<Single("a"), Single("b"), Array(<<"a", "b">>)>>

\* The event and guard of a transition.
Labels == <<<<"e", <<>>>>, <<"e", <<"g">>>>, <<"e->a", <<>>>>, <<"e->a", <<"g">>>>>>

\* The transitions a definition over the states draws from, in a fixed
\* order: every from, label and target.
TransitionsOf(states) ==
  [k \in 1..(Len(FromsOf(states)) * Len(Labels) * Len(states)) |->
     Transition(FromsOf(states)[((k - 1) \div (Len(Labels) * Len(states))) + 1],
                Labels[(((k - 1) \div Len(states)) % Len(Labels)) + 1][1],
                states[((k - 1) % Len(states)) + 1],
                Labels[(((k - 1) \div Len(states)) % Len(Labels)) + 1][2])]

\* The ways to pick up to n of m transitions, kept in their order.
PicksUpTo(m, n) ==
  UNION {{f \in [1..k -> 1..m] : \A i \in 1..(k - 1) : f[i] < f[i + 1]} : k \in 0..n}

Metas ==
  { EmptyObject,
    [owner |-> "ops", _builderPositions |-> [a |-> Position(7, 9)]] }

\* The definitions that satisfy the data-model invariants: unique state
\* names, initial in states, every from / to in states.
IsDefinition(d, states) ==
  \E i \in 1..Len(states) :
    \E pick \in PicksUpTo(Len(TransitionsOf(states)), MaxTransitions) :
      \E m \in Metas :
        d = [states |-> states, initial |-> states[i],
             transitions |-> [k \in 1..Len(pick) |-> TransitionsOf(states)[pick[k]]],
             meta |-> m]

InitConv ==
  /\ \E states \in StateLists : IsDefinition(def, states)
  /\ flow = Null /\ def2 = Null
  /\ cpc = "def"
  /\ IdleParse /\ IdleSerialize /\ IdleBuilder /\ IdleModal /\ IdleGraph /\ IdleHook
  /\ IdlePage

\* definitionToFlow(definition), as the editor does on load.
ToFlow ==
  /\ cpc = "def"
  /\ flow' = definitionToFlow(def)
  /\ cpc' = "flow"
  /\ UNCHANGED <<def, def2>>
  /\ UNCHANGED othersOfConv

\* flowToDefinition(nodes, edges, meta), as notifyChange does.
ToDefinition ==
  /\ cpc = "flow"
  /\ def2' = flowToDefinition(flow.nodes, flow.edges, def.meta)
  /\ cpc' = "back"
  /\ UNCHANGED <<def, flow>>
  /\ UNCHANGED othersOfConv

NextConv == ToFlow \/ ToDefinition

SpecConv == InitConv /\ [][NextConv]_vars

(***************************************************************************)
(* Part 10b. Validator run: a graph -> its validation -> its definition    *)
(***************************************************************************)

\* Bounds of the graphs validated.
MaxNodes == 3
MaxEdges == 2

\* The labels of the nodes (a node's id is its label) and the events of the
\* edges; "" and " " are the blank ones.
GraphLabels == {"a", "b", ""}
GraphEvents == <<"e", " ">>

GraphNode(label, isInitial) == StateNode(label, Position(0, 0), label, isInitial)

\* The ids edges run between: those of the first two nodes.
EndIds(nodes) ==
  NewSet([i \in 1..SetMinOf(2, Len(nodes)) |-> nodes[i].id])

\* The edges a graph over the nodes draws from, in a fixed order: every
\* source, target and event.
EdgesOf(ids) ==
  [k \in 1..(Len(ids) * Len(ids) * Len(GraphEvents)) |->
     TransitionEdge(
       generateEdgeId(ids[((k - 1) \div (Len(ids) * Len(GraphEvents))) + 1],
                      ids[(((k - 1) \div Len(GraphEvents)) % Len(ids)) + 1],
                      GraphEvents[((k - 1) % Len(GraphEvents)) + 1]),
       ids[((k - 1) \div (Len(ids) * Len(GraphEvents))) + 1],
       ids[(((k - 1) \div Len(GraphEvents)) % Len(ids)) + 1],
       GraphEvents[((k - 1) % Len(GraphEvents)) + 1],
       <<>>,
       <<ids[((k - 1) \div (Len(ids) * Len(GraphEvents))) + 1]>>)]

IsGraph(nodes, edges) ==
  \E n \in 0..MaxNodes :
    \E labels \in [1..n -> GraphLabels] : \E flags \in [1..n -> BOOLEAN] :
      /\ nodes = [i \in 1..n |-> GraphNode(labels[i], flags[i])]
      /\ \E pick \in PicksUpTo(Len(EdgesOf(EndIds(nodes))), MaxEdges) :
           edges = [k \in 1..Len(pick) |-> EdgesOf(EndIds(nodes))[pick[k]]]

InitGraph ==
  /\ IsGraph(vNodes, vEdges)
  /\ validation = Null /\ vDef = Null
  /\ vpc = "graph"
  /\ IdleParse /\ IdleSerialize /\ IdleBuilder /\ IdleModal /\ IdleConv /\ IdleHook
  /\ IdlePage

\* validate(): validateBuilderState(nodes, edges).
Validate ==
  /\ vpc = "graph"
  /\ validation' = validateBuilderState(vNodes, vEdges)
  /\ vpc' = "validated"
  /\ UNCHANGED <<vNodes, vEdges, vDef>>
  /\ UNCHANGED othersOfGraph

\* getDefinition(): flowToDefinition(nodes, edges, metaRef.current) of an
\* editor opened without a definition.
GetDefinition ==
  /\ vpc = "validated"
  /\ vDef' = flowToDefinition(vNodes, vEdges, EmptyObject)
  /\ vpc' = "defined"
  /\ UNCHANGED <<vNodes, vEdges, validation>>
  /\ UNCHANGED othersOfGraph

NextGraph == Validate \/ GetDefinition

SpecGraph == InitGraph /\ [][NextGraph]_vars

(***************************************************************************)
(* Part 10c. Converter and validator on structurally invalid definitions   *)
(***************************************************************************)

\* The state lists, initial names and transitions of the definitions: no
\* state, a duplicate name, a blank name; no initial, an initial that is no
\* state; a blank event, and ends that are no states ("z").
InvalidStateLists == {<<>>, <<"a">>, <<"a", "a">>, <<"a", " ">>, <<"a", "b">>}
InvalidInitials == {"", "a", "z"}
InvalidTransitions ==
  << Transition(Single("a"), "e", "b", <<>>),
     Transition(Single("a"), "", "a", <<>>),
     Transition(Single("z"), "e", "a", <<>>),
     Transition(Single("a"), "e", "z", <<>>),
     Transition(Array(<<"a", "z">>), "e", "a", <<"g">>) >>

\* The invariants of the data model on a definition: no two states share a
\* name, initial is a member of states, and every from name and every to
\* name of every transition is a member of states.
NamesOf(states) == {states[i] : i \in 1..Len(states)}

distinctNames(states) ==
  \A i \in 1..Len(states) : \A j \in 1..Len(states) : states[i] = states[j] => i = j

endsAreStates(definition) ==
  \A k \in 1..Len(definition.transitions) :
    /\ definition.transitions[k].to \in NamesOf(definition.states)
    /\ \A i \in 1..Len(definition.transitions[k].from.names) :
         definition.transitions[k].from.names[i] \in NamesOf(definition.states)

dataModelInvariants(definition) ==
  /\ distinctNames(definition.states)
  /\ definition.initial \in NamesOf(definition.states)
  /\ endsAreStates(definition)

\* A definition without a structural error: the invariants hold, and no
\* name and no event is blank.
wellFormed(definition) ==
  /\ dataModelInvariants(definition)
  /\ \A i \in 1..Len(definition.states) : ~isBlank(definition.states[i])
  /\ \A k \in 1..Len(definition.transitions) : ~isBlank(definition.transitions[k].event)

IsInvalidDefinition(d) ==
  /\ \E states \in InvalidStateLists : \E initial \in InvalidInitials :
       \E pick \in PicksUpTo(Len(InvalidTransitions), MaxTransitions) :
         d = [states |-> states, initial |-> initial,
              transitions |-> [k \in 1..Len(pick) |-> InvalidTransitions[pick[k]]],
              meta |-> EmptyObject]
  /\ ~wellFormed(d)

InitInvalid ==
  /\ IsInvalidDefinition(def)
  /\ flow = Null /\ def2 = Null
  /\ cpc = "def"
  /\ IdleParse /\ IdleSerialize /\ IdleBuilder /\ IdleModal /\ IdleGraph /\ IdleHook
  /\ IdlePage

\* validate() on the graph the definition was loaded into.
ValidateFlow ==
  /\ cpc \in {"flow", "back"}
  /\ vpc = "idle"
  /\ validation' = validateBuilderState(flow.nodes, flow.edges)
  /\ vpc' = "validated"
  /\ UNCHANGED <<vNodes, vEdges, vDef>>
  /\ UNCHANGED othersOfGraph

NextInvalid == ToFlow \/ ToDefinition \/ ValidateFlow

SpecInvalid == InitInvalid /\ [][NextInvalid]_vars

(***************************************************************************)
(* Part 11. Visual guard builder (GuardBuilder.tsx, ConditionGroupComponent*)
(*          .tsx, ConditionRow.tsx) inside GuardBuilderModal               *)
(*                                                                         *)
(* Items are addressed by their path of indexes from the root instead of   *)
(* by their random ids.                                                    *)
(***************************************************************************)

\* Bounds of the builder: conditions and sub-groups below the root.
MaxConditions == 2
MaxGroups == 2

\* ConditionGroupComponent offers "Add Group" while depth < 2.
MaxGroupDepth == 2

\* What the user types or picks in a ConditionRow.
FieldInputs == {<<>>, <<"a">>}
TextInputs == {<<"x">>}
NumberInputs == {<<"7">>}
OperatorChoices == {"exists", "=="}
ValueTypes == {"string", "boolean"}

\* The guard texts the modal is opened with (none, or an existing guard).
InitialGuards ==
  {<<>>, CTX \o <<"a">>, CTX \o <<"a", " ", ">", " ", "5">>}

createEmptyCondition == Condition(<<>>, "exists", Undef, FALSE)
createEmptyGroup == Group("and", <<createEmptyCondition>>, FALSE)
createInitialGroup == Group("and", <<createEmptyCondition>>, FALSE)

needsValue(operator) == operator \notin {"exists", "not_exists"}
isNumericOp(operator) == operator \in {">", ">=", "<", "<="}

detectValueType(value) ==
  IF value.t = "null" THEN "null"
  ELSE IF value.t = "boolean" THEN "boolean"
  ELSE IF value.t = "number" THEN "number"
  ELSE "string"

\* const num = parseFloat(input); return isNaN(num) ? 0 : num
numberOrZero(num) == IF num.t = "NaN" THEN Num(FALSE, 0, <<>>) ELSE num

parseValueForType(input, valueType, operator) ==
  IF ~needsValue(operator) THEN Undef
  ELSE IF isNumericOp(operator) \/ valueType = "number"
  THEN numberOrZero(parseFloat(input))
  ELSE IF valueType = "boolean" THEN Bool(input = TRUE_)
  ELSE IF valueType = "null" THEN NullV
  ELSE Str(input)

RECURSIVE ItemAt(_, _)
ItemAt(root, path) ==
  IF path = <<>> THEN root ELSE ItemAt(root.items[path[1]], Tail(path))

RECURSIVE ReplaceAt(_, _, _)
ReplaceAt(root, path, item) ==
  IF path = <<>> THEN item
  ELSE [root EXCEPT !.items[path[1]] = ReplaceAt(root.items[path[1]], Tail(path), item)]

\* The paths of the groups (root included) and of the conditions of a tree.
RECURSIVE GroupPaths(_)
GroupPaths(group) ==
  {<<>>} \cup
  UNION {{<<i>> \o q : q \in GroupPaths(group.items[i])} :
           i \in {j \in 1..Len(group.items) : ~isCondition(group.items[j])}}

ConditionPaths(root) ==
  UNION {{Append(g, i) : i \in {j \in 1..Len(ItemAt(root, g).items) :
                                   isCondition(ItemAt(root, g).items[j])}} :
           g \in GroupPaths(root)}

CountConditions(root) == Cardinality(ConditionPaths(root))
CountGroups(root) == Cardinality(GroupPaths(root)) - 1

RemoveAt(seq, i) == SubSeq(seq, 1, i - 1) \o SubSeq(seq, i + 1, Len(seq))

\* GuardBuilderContent's initial state for a value prop:
\* (value ? parseExpression(value) : null) || createInitialGroup().
parsedOrInitial(parsed) == IF parsed # Null THEN parsed ELSE createInitialGroup

mountGroup(value) ==
  IF value = <<>> THEN createInitialGroup ELSE parsedOrInitial(parseExpression(value))

\* handleGroupUpdate(newGroup): setGroup, then onChange(expr || undefined),
\* which GuardBuilderModal stores as the value prop; GuardBuilder is keyed by
\* that value, so a changed value remounts GuardBuilderContent, whose state
\* is then derived from the text again.
handleGroupUpdate(newGroup) ==
  \E built \in {newGroup} : \E expr \in {generateExpression(built)} :
    /\ gbMode = "visual"
    /\ gbBuilt' = built
    /\ gbExpr' = expr
    /\ gbValue' = expr
    /\ gbGroup' = IF expr # gbValue THEN mountGroup(expr) ELSE built
    /\ gbMode' = "visual"
    /\ gbRaw' = IF expr # gbValue THEN expr ELSE gbRaw
    /\ UNCHANGED othersOfBuilder

\* An update of the group at path g reaches the root through the chain of
\* handleGroupChange calls.
UpdateGroupAt(g, group) == handleGroupUpdate(ReplaceAt(gbGroup, g, group))

\* An update of the condition at path c through handleConditionChange.
UpdateConditionAt(c, condition) == handleGroupUpdate(ReplaceAt(gbGroup, c, condition))

InitBuilder ==
  /\ gbValue \in InitialGuards
  /\ gbGroup = mountGroup(gbValue)
  /\ gbBuilt = Null
  /\ gbExpr = <<>>
  /\ gbMode = "visual"
  /\ gbRaw = gbValue
  /\ IdleParse /\ IdleSerialize /\ IdleModal /\ IdleConv /\ IdleGraph /\ IdleHook
  /\ IdlePage

handleLogicChange ==
  \E g \in GroupPaths(gbGroup) : \E logic \in {"and", "or"} :
    /\ logic # ItemAt(gbGroup, g).logic
    /\ UpdateGroupAt(g, [ItemAt(gbGroup, g) EXCEPT !.logic = logic])

\* The NOT button of a group; the root shows none.
handleGroupNegatedToggle ==
  \E g \in GroupPaths(gbGroup) :
    /\ g # <<>>
    /\ UpdateGroupAt(g, [ItemAt(gbGroup, g) EXCEPT !.negated = ~@])

handleAddCondition ==
  \E g \in GroupPaths(gbGroup) :
    /\ CountConditions(gbGroup) < MaxConditions
    /\ UpdateGroupAt(g, [ItemAt(gbGroup, g) EXCEPT !.items = Append(@, createEmptyCondition)])

handleAddGroup ==
  \E g \in GroupPaths(gbGroup) :
    /\ Len(g) < MaxGroupDepth
    /\ CountConditions(gbGroup) < MaxConditions
    /\ CountGroups(gbGroup) < MaxGroups
    /\ UpdateGroupAt(g, [ItemAt(gbGroup, g) EXCEPT !.items = Append(@, createEmptyGroup)])

handleItemDelete ==
  \E g \in GroupPaths(gbGroup) : \E i \in 1..Len(ItemAt(gbGroup, g).items) :
    /\ Len(ItemAt(gbGroup, g).items) > 1
    /\ UpdateGroupAt(g, [ItemAt(gbGroup, g) EXCEPT !.items = RemoveAt(@, i)])

handleFieldBlur ==
  \E c \in ConditionPaths(gbGroup) : \E localField \in FieldInputs :
    /\ localField # ItemAt(gbGroup, c).field
    /\ UpdateConditionAt(c, [ItemAt(gbGroup, c) EXCEPT !.field = localField])

\* The value input exists for an operator that needs a value: a number input
\* for a numeric operator or a number value, a text input for a string value.
handleValueBlur ==
  \E c \in ConditionPaths(gbGroup) : \E localValue \in TextInputs \cup NumberInputs :
    LET condition == ItemAt(gbGroup, c)
        valueType == detectValueType(condition.value)
        parsedValue == parseValueForType(localValue, valueType, condition.operator)
    IN /\ needsValue(condition.operator)
       /\ IF isNumericOp(condition.operator) \/ valueType = "number"
          THEN localValue \in NumberInputs
          ELSE valueType = "string" /\ localValue \in TextInputs
       /\ parsedValue # condition.value
       /\ UpdateConditionAt(c, [condition EXCEPT !.value = parsedValue])

handleConditionNegatedToggle ==
  \E c \in ConditionPaths(gbGroup) :
    UpdateConditionAt(c, [ItemAt(gbGroup, c) EXCEPT !.negated = ~@])

handleOperatorChange ==
  \E c \in ConditionPaths(gbGroup) : \E newOperator \in OperatorChoices :
    LET condition == ItemAt(gbGroup, c)
        newValue ==
          IF needsValue(newOperator)
          THEN (IF condition.value.t \in {"undefined", "null"} THEN Str(<<>>) ELSE condition.value)
          ELSE Undef
    IN /\ newOperator # condition.operator
       /\ UpdateConditionAt(c, [condition EXCEPT !.operator = newOperator, !.value = newValue])

handleValueTypeChange ==
  \E c \in ConditionPaths(gbGroup) : \E newType \in ValueTypes :
    LET condition == ItemAt(gbGroup, c)
        newValue ==
          CASE newType = "null" -> NullV
            [] newType = "boolean" -> Bool(TRUE)
            [] newType = "number" -> Num(FALSE, 0, <<>>)
            [] OTHER -> Str(<<>>)
    IN /\ needsValue(condition.operator) /\ ~isNumericOp(condition.operator)
       /\ newType # detectValueType(condition.value)
       /\ UpdateConditionAt(c, [condition EXCEPT !.value = newValue])

handleBooleanChange ==
  \E c \in ConditionPaths(gbGroup) : \E b \in BOOLEAN :
    LET condition == ItemAt(gbGroup, c)
    IN /\ needsValue(condition.operator) /\ ~isNumericOp(condition.operator)
       /\ detectValueType(condition.value) = "boolean"
       /\ Bool(b) # condition.value
       /\ UpdateConditionAt(c, [condition EXCEPT !.value = Bool(b)])

\* The preview: generateExpression(group) in visual mode, rawValue in raw
\* mode.
previewExpression == IF gbMode = "visual" THEN generateExpression(gbGroup) ELSE gbRaw

\* handleClear: the Clear button shows while the preview is not empty;
\* onChange(undefined) remounts GuardBuilderContent unless the value was
\* undefined already.
handleClear ==
  /\ gbGroup # Null
  /\ previewExpression # <<>>
  /\ gbGroup' = createInitialGroup
  /\ gbValue' = <<>>
  /\ gbRaw' = <<>>
  /\ gbMode' = IF gbValue # <<>> THEN "visual" ELSE gbMode
  /\ gbBuilt' = Null
  /\ gbExpr' = <<>>
  /\ UNCHANGED othersOfBuilder

NextBuilder ==
  \/ handleLogicChange
  \/ handleGroupNegatedToggle
  \/ handleAddCondition
  \/ handleAddGroup
  \/ handleItemDelete
  \/ handleFieldBlur
  \/ handleValueBlur
  \/ handleConditionNegatedToggle
  \/ handleOperatorChange
  \/ handleValueTypeChange
  \/ handleBooleanChange
  \/ handleClear

SpecBuilder == InitBuilder /\ [][NextBuilder]_vars

(***************************************************************************)
(* Part 11b. Guard editing run: TransitionProperties -> GuardBuilderModal  *)
(* -> GuardBuilder, with its raw mode                                      *)
(***************************************************************************)

\* The guards a selected transition starts with, and the texts typed into
\* the raw textarea: nothing, a clause, and a clause cut short after its
\* operator, typed with a leading blank.
ModalGuards == {<<>>, CTX \o <<"a">>}
RawInputs ==
  {<<>>, CTX \o <<"b">>, <<" ">> \o CTX \o <<"a", " ", ">">>}

InitModal ==
  /\ tpGuard \in ModalGuards
  /\ edgeGuard = tpGuard
  /\ gmOpen = FALSE
  /\ gbValue = tpGuard
  /\ gbGroup = Null /\ gbBuilt = Null /\ gbExpr = <<>>
  /\ gbMode = "visual" /\ gbRaw = <<>>
  /\ IdleParse /\ IdleSerialize /\ IdleConv /\ IdleGraph /\ IdleHook
  /\ IdlePage

\* GuardBuilderContent as mounted for a value prop: visual mode, the raw text
\* and the group derived from the value.
mountContent(value) ==
  /\ gbMode' = "visual"
  /\ gbRaw' = value
  /\ gbGroup' = mountGroup(value)

\* The Add/Edit Guard button: setIsGuardModalOpen(true); the modal's effect
\* then stores value (guard || undefined) as localValue.
openGuardModal ==
  /\ ~gmOpen
  /\ gmOpen' = TRUE
  /\ gbValue' = tpGuard
  /\ mountContent(tpGuard)
  /\ UNCHANGED <<gbBuilt, gbExpr, tpGuard, edgeGuard, othersOfModal>>

\* onClose (the X button, Cancel, the backdrop): the modal renders nothing,
\* GuardBuilderContent is unmounted, localValue stays.
onClose ==
  /\ gmOpen' = FALSE
  /\ gbGroup' = Null /\ gbBuilt' = Null /\ gbExpr' = <<>>
  /\ gbMode' = "visual" /\ gbRaw' = <<>>

closeGuardModal ==
  /\ gmOpen
  /\ onClose
  /\ UNCHANGED <<gbValue, tpGuard, edgeGuard, othersOfModal>>

\* handleGuardSave(value): setGuard(value || ''); onUpdateGuard(value).
handleGuardSave(value) ==
  /\ tpGuard' = value
  /\ edgeGuard' = value

\* handleSave: onSave(localValue); onClose().
handleSave ==
  /\ gmOpen
  /\ handleGuardSave(gbValue)
  /\ onClose
  /\ UNCHANGED <<gbValue, othersOfModal>>

\* The Remove button of the panel, shown while the guard is not empty.
removeGuard ==
  /\ ~gmOpen
  /\ tpGuard # <<>>
  /\ handleGuardSave(<<>>)
  /\ UNCHANGED <<builderVars, gmOpen, othersOfModal>>

\* handleModeSwitch(newMode).
handleModeSwitch(newMode) ==
  \E parsed \in {IF newMode = "visual" /\ gbMode = "raw" /\ gbRaw # <<>>
                   THEN parseExpression(gbRaw) ELSE Null} :
    /\ gbGroup' = IF parsed # Null THEN parsed ELSE gbGroup
    /\ gbMode' = newMode
    /\ UNCHANGED <<gbValue, gbRaw, gbBuilt, gbExpr, modalVars, othersOfModal>>

\* The Visual and Raw buttons; a click on the button of the current mode
\* changes nothing.
switchMode ==
  /\ gmOpen
  /\ \E newMode \in {"visual", "raw"} :
       /\ newMode # gbMode
       /\ handleModeSwitch(newMode)

\* handleRawChange(newValue): typing in the raw textarea.
handleRawChange ==
  /\ gmOpen
  /\ gbMode = "raw"
  /\ \E newValue \in RawInputs :
       /\ newValue # gbRaw
       /\ gbRaw' = newValue
  /\ UNCHANGED <<gbValue, gbGroup, gbBuilt, gbExpr, gbMode, modalVars, othersOfModal>>

\* handleRawBlur: onChange(rawValue.trim() || undefined); a changed value
\* remounts GuardBuilderContent.
handleRawBlur ==
  /\ gmOpen
  /\ gbMode = "raw"
  /\ \E value \in {Trim(gbRaw)} :
       /\ gbValue' = value
       /\ IF value # gbValue
            THEN mountContent(value)
            ELSE UNCHANGED <<gbMode, gbRaw, gbGroup>>
  /\ UNCHANGED <<gbBuilt, gbExpr, modalVars, othersOfModal>>

\* The visual editing and the Clear button inside the open modal.
editInModal ==
  /\ gmOpen
  /\ \/ handleFieldBlur
     \/ handleConditionNegatedToggle
     \/ handleAddCondition
     \/ handleClear

NextModal ==
  \/ openGuardModal
  \/ closeGuardModal
  \/ handleSave
  \/ removeGuard
  \/ switchMode
  \/ handleRawChange
  \/ handleRawBlur
  \/ editInModal

SpecModal == InitModal /\ [][NextModal]_vars

(***************************************************************************)
(* Part 11c. Editor hook run (hooks/useMachineBuilder.ts)                  *)
(* The callbacks of the hook are made by useCallback: they read the nodes, *)
(* edges and selection of the render that made them (hkSeenNodes,          *)
(* hkSeenEdges, hkSeenSelection), while the updaters they hand to setNodes *)
(* / setEdges get the state itself.  Every notification is a               *)
(* setTimeout(..., 0) callback.                                            *)
(***************************************************************************)

MaxHookNodes == 3
MaxHookEdges == 2
MaxTimers == 2
MaxMutations == 3

HookEvents == {"go"}
HookGuards == {<<"g">>}
HookPositions == {Position(0, 0)}

\* The names typed into a name field: nothing, a blank, the name of the
\* second loaded state, and a new name with blanks around it.
RenameInputs == {"", " ", "b", " c "}

\* newName.trim() on the names of the model.
StringTrim(s) == IF s = " " THEN "" ELSE IF s = " c " THEN "c" ELSE s

\* metaRef.current: initialDefinition?.meta of the definitions below, which
\* carry no meta.
HookMeta == EmptyObject

\* The initialDefinition option: none, or a valid definition of two states.
LoadedDefinition ==
  [states |-> <<"a", "b">>, initial |-> "a",
   transitions |-> <<Transition(Single("a"), "e", "b", <<>>)>>, meta |-> EmptyObject]

initialFlow(initialDefinition) ==
  IF initialDefinition = Null THEN [nodes |-> <<>>, edges |-> <<>>]
  ELSE definitionToFlow(initialDefinition)

createStateNode(name, position, isInitial) == StateNode(name, position, name, isInitial)

createTransitionEdge(sourceId, targetId, event) ==
  TransitionEdge(generateEdgeId(sourceId, targetId, event), sourceId, targetId,
                 event, <<>>, <<sourceId>>)

Suffixes == <<"1", "2", "3", "4", "5", "6", "7", "8", "9">>

\* `${name || 'new_state'}_${counter}`, and the bare name for counter 0.
NumberedName(counter) ==
  IF counter = 0 THEN "new_state" ELSE "new_state_" \o Suffixes[counter]

\* The while loop of addState: the first name not among existingNames.
newNameFor(nodes) ==
  NumberedName(SetMin({counter \in 0..Len(nodes) :
                         \A i \in 1..Len(nodes) : nodes[i].data.label # NumberedName(counter)}))

\* The position addState gives the new node.
newPositionFor(nodes) ==
  IF Len(nodes) > 0
  THEN Position(nodes[Len(nodes)].position.x + 180, nodes[Len(nodes)].position.y)
  ELSE Position(100, 100)

\* addEdge of @xyflow/react: the edges unchanged when they hold an edge
\* with the same source and target, the new edge appended otherwise.
addEdge(newEdge, eds) ==
  IF \E i \in 1..Len(eds) : eds[i].source = newEdge.source /\ eds[i].target = newEdge.target
  THEN eds
  ELSE Append(eds, newEdge)

\* applyAutoLayout: the nodes with the positions dagre computes.  dagre is
\* not part of the repository; the model lays the nodes out in one row, in
\* the order of the list, which is one layout dagre can produce.
applyAutoLayout(nodes) ==
  [i \in 1..Len(nodes) |-> [nodes[i] EXCEPT !.position = Position(50 + (i - 1) * 200, 50)]]

HookIds(nodes) == {nodes[i].id : i \in 1..Len(nodes)}

\* seq.filter(keep) for a set of kept indices.
RECURSIVE KeepFrom(_, _, _)
KeepFrom(seq, keep, i) ==
  IF i > Len(seq) THEN <<>>
  ELSE (IF i \in keep THEN <<seq[i]>> ELSE <<>>) \o KeepFrom(seq, keep, i + 1)

\* nds.filter((n) => n.id !== id)
nodesWithout(nds, id) == KeepFrom(nds, {i \in 1..Len(nds) : nds[i].id # id}, 1)

\* eds.filter((e) => e.source !== id && e.target !== id)
edgesNotAt(eds, id) ==
  KeepFrom(eds, {i \in 1..Len(eds) : eds[i].source # id /\ eds[i].target # id}, 1)

\* eds.filter((e) => e.id !== id)
edgesWithout(eds, id) == KeepFrom(eds, {i \in 1..Len(eds) : eds[i].id # id}, 1)

\* renameState returns early: the trimmed name is empty, or another node of
\* the callback's nodes carries it.
renameRejected(nodes, nodeId, newName) ==
  \/ StringTrim(newName) = ""
  \/ \E i \in 1..Len(nodes) :
       nodes[i].id # nodeId /\ nodes[i].data.label = StringTrim(newName)

\* The setNodes updater of renameState.
renamedNodes(nds, nodeId, trimmedName) ==
  [i \in 1..Len(nds) |->
     IF nds[i].id = nodeId
     THEN [nds[i] EXCEPT !.id = trimmedName, !.data.label = trimmedName]
     ELSE nds[i]]

renamedEnd(end, nodeId, trimmedName) == IF end = nodeId THEN trimmedName ELSE end

\* edge.data?.event || 'event'
eventOrDefault(event) == IF event = "" THEN "event" ELSE event

\* The setEdges updater of renameState.
renamedEdges(eds, nodeId, trimmedName) ==
  [i \in 1..Len(eds) |->
     [eds[i] EXCEPT
        !.source = renamedEnd(@, nodeId, trimmedName),
        !.target = renamedEnd(@, nodeId, trimmedName),
        !.id = IF eds[i].source = nodeId \/ eds[i].target = nodeId
               THEN generateEdgeId(renamedEnd(eds[i].source, nodeId, trimmedName),
                                   renamedEnd(eds[i].target, nodeId, trimmedName),
                                   eventOrDefault(eds[i].data.event))
               ELSE @]]

StateSelection(id) == [type |-> "state", id |-> id]
TransitionSelection(id) == [type |-> "transition", id |-> id]

\* A pending setTimeout callback: the arguments it will hand to
\* notifyChange (readsNodes: it reads the nodes when it runs), and, for the
\* properties, the nodes and edges that resulted from the mutation and the
\* number of that mutation.
Timer(newNodes, newEdges, readsNodes, resultNodes, resultEdges, serial) ==
  [nodes |-> newNodes, edges |-> newEdges, readsNodes |-> readsNodes,
   resultNodes |-> resultNodes, resultEdges |-> resultEdges, serial |-> serial]

\* A mutation and its notification, with the selection it leaves.  A run
\* makes at most MaxMutations mutations.
MutateCall(newNodes, newEdges, timerNodes, timerEdges, readsNodes, newSelection, call) ==
  /\ Len(hkTimers) < MaxTimers
  /\ hkMutations < MaxMutations
  /\ hkMutations' = hkMutations + 1
  /\ hkChanged' = hkMutations + 1
  /\ hkNodes' = newNodes
  /\ hkEdges' = newEdges
  /\ hkTimers' = Append(hkTimers, Timer(timerNodes, timerEdges, readsNodes,
                                         newNodes, newEdges, hkMutations + 1))
  /\ hkSelection' = newSelection
  /\ hkCall' = call
  /\ UNCHANGED <<hkSeenNodes, hkSeenEdges, hkSeenSelection, hkDelivered, othersOfHook>>

MutateSelect(newNodes, newEdges, timerNodes, timerEdges, readsNodes, newSelection) ==
  MutateCall(newNodes, newEdges, timerNodes, timerEdges, readsNodes, newSelection, Null)

Mutate(newNodes, newEdges, timerNodes, timerEdges, readsNodes) ==
  MutateSelect(newNodes, newEdges, timerNodes, timerEdges, readsNodes, hkSelection)

\* A change applied by onNodesChange / onEdgesChange alone: no
\* notification is scheduled.
Apply(newNodes, newEdges) ==
  /\ hkMutations < MaxMutations
  /\ hkMutations' = hkMutations + 1
  /\ hkChanged' = hkMutations + 1
  /\ hkNodes' = newNodes
  /\ hkEdges' = newEdges
  /\ hkCall' = Null
  /\ UNCHANGED <<hkSeenNodes, hkSeenEdges, hkSeenSelection, hkSelection, hkTimers,
                 hkDelivered, othersOfHook>>

InitHook ==
  /\ \E initialDefinition \in {Null, LoadedDefinition} :
       /\ hkNodes = initialFlow(initialDefinition).nodes
       /\ hkEdges = initialFlow(initialDefinition).edges
  /\ hkSeenNodes = hkNodes /\ hkSeenEdges = hkEdges
  /\ hkTimers = <<>>
  /\ hkDelivered = Null
  /\ hkMutations = 0
  /\ hkChanged = 0
  /\ hkCall = Null
  /\ hkSelection = NoSelection /\ hkSeenSelection = NoSelection
  /\ IdleParse /\ IdleSerialize /\ IdleBuilder /\ IdleModal /\ IdleConv /\ IdleGraph
  /\ IdlePage

\* addState(): name and position from the nodes of the callback, updater
\* [...nds, newNode], setTimeout(() => notifyChange(newNodes, edges)),
\* setSelection to the new node.
addState ==
  /\ Len(hkNodes) < MaxHookNodes
  /\ \E newNode \in {createStateNode(newNameFor(hkSeenNodes), newPositionFor(hkSeenNodes),
                                     Len(hkSeenNodes) = 0)} :
       \E newNodes \in {Append(hkNodes, newNode)} :
         MutateSelect(newNodes, hkEdges, newNodes, hkSeenEdges, FALSE,
                      StateSelection(newNode.id))

\* onConnect(connection) between two nodes on the canvas.
onConnect ==
  \E source \in HookIds(hkSeenNodes) : \E target \in HookIds(hkSeenNodes) :
    \E newEdge \in {createTransitionEdge(source, target, "event")} :
      \E newEdges \in {addEdge(newEdge, hkEdges)} :
        /\ Len(newEdges) <= MaxHookEdges
        /\ MutateSelect(hkNodes, newEdges, hkSeenNodes, newEdges, FALSE,
                        TransitionSelection(newEdge.id))

\* deleteSelected(): the selected state with its edges, or the selected
\* transition.
deleteSelected ==
  \/ /\ hkSeenSelection.type = "state" /\ hkSeenSelection.id # ""
     /\ MutateSelect(nodesWithout(hkNodes, hkSeenSelection.id),
                     edgesNotAt(hkEdges, hkSeenSelection.id),
                     nodesWithout(hkNodes, hkSeenSelection.id),
                     edgesNotAt(hkEdges, hkSeenSelection.id), FALSE, NoSelection)
  \/ /\ hkSeenSelection.type = "transition" /\ hkSeenSelection.id # ""
     /\ MutateSelect(hkNodes, edgesWithout(hkEdges, hkSeenSelection.id),
                     hkSeenNodes, edgesWithout(hkEdges, hkSeenSelection.id), FALSE,
                     NoSelection)

RenameCall(nodeId, newName) == [type |-> "renameState", nodeId |-> nodeId, newName |-> newName]

\* renameState(nodeId, newName) of a node on the canvas; an early return
\* changes nothing (the call counts as an operation of the user).
renameState ==
  \E nodeId \in HookIds(hkSeenNodes) : \E newName \in RenameInputs :
    IF renameRejected(hkSeenNodes, nodeId, newName)
    THEN /\ hkMutations < MaxMutations
         /\ hkMutations' = hkMutations + 1
         /\ hkCall' = RenameCall(nodeId, newName)
         /\ UNCHANGED <<hkNodes, hkEdges, hkSeenNodes, hkSeenEdges, hkSelection,
                        hkSeenSelection, hkTimers, hkDelivered, hkChanged, othersOfHook>>
    ELSE \E trimmedName \in {StringTrim(newName)} :
           MutateCall(renamedNodes(hkNodes, nodeId, trimmedName),
                      renamedEdges(hkEdges, nodeId, trimmedName),
                      renamedNodes(hkNodes, nodeId, trimmedName),
                      renamedEdges(hkEdges, nodeId, trimmedName), FALSE,
                      IF hkSeenSelection.id = nodeId THEN StateSelection(trimmedName)
                      ELSE hkSelection,
                      RenameCall(nodeId, newName))

setInitialState ==
  \E nodeId \in HookIds(hkSeenNodes) :
    \E newNodes \in {[i \in 1..Len(hkNodes) |->
                        [hkNodes[i] EXCEPT !.data.isInitial = (hkNodes[i].id = nodeId)]]} :
      /\ newNodes # hkNodes
      /\ Mutate(newNodes, hkEdges, newNodes, hkSeenEdges, FALSE)

updateTransitionEvent ==
  \E k \in 1..Len(hkSeenEdges) : \E event \in HookEvents :
    \E newEdges \in {[i \in 1..Len(hkEdges) |->
                        IF hkEdges[i].id = hkSeenEdges[k].id
                        THEN [hkEdges[i] EXCEPT !.data.event = event]
                        ELSE hkEdges[i]]} :
      /\ newEdges # hkEdges
      /\ Mutate(hkNodes, newEdges, hkSeenNodes, newEdges, FALSE)

updateTransitionGuard ==
  \E k \in 1..Len(hkSeenEdges) : \E guard \in HookGuards :
    \E newEdges \in {[i \in 1..Len(hkEdges) |->
                        IF hkEdges[i].id = hkSeenEdges[k].id
                        THEN [hkEdges[i] EXCEPT !.data.guard = guard]
                        ELSE hkEdges[i]]} :
      /\ newEdges # hkEdges
      /\ Mutate(hkNodes, newEdges, hkSeenNodes, newEdges, FALSE)

\* autoLayout(): setNodes(layoutedNodes) puts the laid-out nodes of the
\* callback in place of the state.
autoLayout ==
  \E layoutedNodes \in {applyAutoLayout(hkSeenNodes)} :
    /\ layoutedNodes # hkNodes
    /\ Mutate(layoutedNodes, hkEdges, layoutedNodes, hkSeenEdges, FALSE)

\* handleNodesChange with the position change that ends a drag:
\* onNodesChange applies it, the timer reads the nodes when it runs and
\* takes the edges of the callback.
handleNodesChange ==
  \E nodeId \in HookIds(hkSeenNodes) : \E position \in HookPositions :
    \E newNodes \in {[i \in 1..Len(hkNodes) |->
                        IF hkNodes[i].id = nodeId
                        THEN [hkNodes[i] EXCEPT !.position = position]
                        ELSE hkNodes[i]]} :
      /\ newNodes # hkNodes
      /\ Mutate(newNodes, hkEdges, <<>>, hkSeenEdges, TRUE)

\* The canvas deletes a node (deleteKeyCode): React Flow hands remove
\* changes for its edges to handleEdgesChange and for the node to
\* handleNodesChange, which apply them and notify nobody.
handleNodesRemove ==
  \E nodeId \in HookIds(hkSeenNodes) :
    /\ nodeId \in HookIds(hkNodes)
    /\ Apply(nodesWithout(hkNodes, nodeId), edgesNotAt(hkEdges, nodeId))

\* The canvas deletes an edge: a remove change through handleEdgesChange.
handleEdgesRemove ==
  \E k \in 1..Len(hkSeenEdges) :
    /\ edgesWithout(hkEdges, hkSeenEdges[k].id) # hkEdges
    /\ Apply(hkNodes, edgesWithout(hkEdges, hkSeenEdges[k].id))

\* A select change through handleNodesChange / handleEdgesChange, and
\* clearSelection.  The operations of the user, selections included, count
\* towards MaxMutations.
Select(newSelection) ==
  /\ newSelection # hkSelection
  /\ hkMutations < MaxMutations
  /\ hkMutations' = hkMutations + 1
  /\ hkSelection' = newSelection
  /\ hkCall' = Null
  /\ UNCHANGED <<hkNodes, hkEdges, hkSeenNodes, hkSeenEdges, hkSeenSelection, hkTimers,
                 hkDelivered, hkChanged, othersOfHook>>

handleNodesSelect == \E nodeId \in HookIds(hkSeenNodes) : Select(StateSelection(nodeId))

handleEdgesSelect ==
  \E k \in 1..Len(hkSeenEdges) : Select(TransitionSelection(hkSeenEdges[k].id))

clearSelection ==
  /\ hkSeenSelection # NoSelection
  /\ Select(NoSelection)

\* A render of the component: useCallback makes the callbacks again, over
\* the state of this render.
Render ==
  /\ <<hkSeenNodes, hkSeenEdges, hkSeenSelection>> # <<hkNodes, hkEdges, hkSelection>>
  /\ hkSeenNodes' = hkNodes
  /\ hkSeenEdges' = hkEdges
  /\ hkSeenSelection' = hkSelection
  /\ UNCHANGED <<hkNodes, hkEdges, hkSelection, hkTimers, hkDelivered, hkMutations,
                 hkChanged, hkCall, othersOfHook>>

\* notifyChange(newNodes, newEdges): onChange(flowToDefinition(newNodes,
\* newEdges, metaRef.current)); beside the definition, what the mutation had
\* resulted in and its number.
notifyChange(newNodes, newEdges, resultNodes, resultEdges, serial) ==
  hkDelivered' = [type |-> "delivered",
                  definition |-> flowToDefinition(newNodes, newEdges, HookMeta),
                  resultNodes |-> resultNodes, resultEdges |-> resultEdges,
                  serial |-> serial]

\* The oldest setTimeout callback runs.
Timeout ==
  /\ Len(hkTimers) > 0
  /\ \E timer \in {hkTimers[1]} :
       IF timer.readsNodes
       THEN notifyChange(hkNodes, timer.edges, hkNodes, timer.resultEdges, timer.serial)
       ELSE notifyChange(timer.nodes, timer.edges, timer.resultNodes, timer.resultEdges,
                         timer.serial)
  /\ hkTimers' = Tail(hkTimers)
  /\ UNCHANGED <<hkNodes, hkEdges, hkSeenNodes, hkSeenEdges, hkSelection, hkSeenSelection,
                 hkMutations, hkChanged, hkCall, othersOfHook>>

NextHook ==
  \/ addState
  \/ onConnect
  \/ deleteSelected
  \/ renameState
  \/ setInitialState
  \/ updateTransitionEvent
  \/ updateTransitionGuard
  \/ autoLayout
  \/ handleNodesChange
  \/ handleNodesRemove
  \/ handleEdgesRemove
  \/ handleNodesSelect
  \/ handleEdgesSelect
  \/ clearSelection
  \/ Render
  \/ Timeout

SpecHook == InitHook /\ [][NextHook]_vars

\* The same run with the timers of the browser: a setTimeout callback that
\* is due does run.
SpecHookLive == SpecHook /\ WF_vars(Timeout)

(***************************************************************************)
(* Part 11d. Page run (pages/MachineDetailPage.tsx: MachineVersionEditor,  *)
(*           with the MachineBuilder it shows in the visual view)          *)
(* The operations of the builder are made through the callbacks of the     *)
(* last render, one pending notification at a time.                        *)
(***************************************************************************)

MaxPageOps == 4

\* The versions loaded from the server: valid definitions, the second with
\* two transitions between the same states.
TwoEventsDefinition ==
  [states |-> <<"a", "b">>, initial |-> "a",
   transitions |-> <<Transition(Single("a"), "e", "b", <<>>),
                     Transition(Single("a"), "f", "b", <<>>)>>,
   meta |-> EmptyObject]

PageDefinitions == {LoadedDefinition, TwoEventsDefinition}

\* JSON.stringify(definition) and JSON.parse(text): a text is the JSON of a
\* definition or no JSON at all.  The definitions of the model hold no
\* undefined field and no number, so parsing the JSON of a definition gives
\* a definition equal to it.
stringify(definition) == [type |-> "json", value |-> definition]
NotJson == [type |-> "text"]
parses(editorValue) == editorValue.type = "json"
parseJson(editorValue) == editorValue.value

\* What the user leaves in the JSON editor: a valid definition, one whose
\* initial is no state, and a text that is no JSON.
EditorInputs ==
  { stringify([states |-> <<"a">>, initial |-> "a", transitions |-> <<>>,
               meta |-> EmptyObject]),
    stringify([states |-> <<"a">>, initial |-> "z", transitions |-> <<>>,
               meta |-> EmptyObject]),
    NotJson }

\* machines.validate(def): the answer of the server, which accepts the
\* definitions that have a state, satisfy the invariants of the data model
\* and hold no blank name or event; beside it, the definition it is for.
serverValidate(definition) ==
  [type |-> "result",
   valid |-> (definition.states # <<>> /\ wellFormed(definition)),
   of |-> <<definition>>]

\* The result handleValidate sets itself when the editor holds no JSON.
parseErrorResult == [type |-> "result", valid |-> FALSE, of |-> <<>>]

\* How often x occurs in seq.
countOf(seq, x) == Cardinality({i \in 1..Len(seq) : seq[i] = x})

\* normalizeTransitions of definitionsEqual, one transition: the from names
\* sorted and joined (for names without a comma: how often each occurs),
\* and guard || ''.
normalizedTransition(t) ==
  [from |-> [name \in NamesOf(t.from.names) |-> countOf(t.from.names, name)],
   event |-> t.event, to |-> t.to,
   guard |-> IF Truthy(t.guard) THEN t.guard[1] ELSE ""]

\* The key the normalized transitions are sorted by.
sortKey(n) == <<n.from, n.event, n.to>>

\* The normalized transitions with one sort key, in their order: the sort
\* is stable, so two sorted lists are equal when, for every key, these are.
withKey(transitions, key) ==
  KeepFrom([k \in 1..Len(transitions) |-> normalizedTransition(transitions[k])],
           {k \in 1..Len(transitions) : sortKey(normalizedTransition(transitions[k])) = key}, 1)

sortKeys(transitions) ==
  {sortKey(normalizedTransition(transitions[k])) : k \in 1..Len(transitions)}

\* meta without _builderPositions.
metaWithoutPositions(meta) == [k \in DOMAIN meta \ {"_builderPositions"} |-> meta[k]]

definitionsEqual(a, b) ==
  /\ Len(a.states) = Len(b.states)
  /\ \A name \in NamesOf(a.states) \cup NamesOf(b.states) :
       countOf(a.states, name) = countOf(b.states, name)
  /\ a.initial = b.initial
  /\ \A key \in sortKeys(a.transitions) \cup sortKeys(b.transitions) :
       withKey(a.transitions, key) = withKey(b.transitions, key)
  /\ metaWithoutPositions(a.meta) = metaWithoutPositions(b.meta)

hasChanges == ~definitionsEqual(pgDefinition, pgInitial)

\* loadDefinition(definition, true): the graph of the definition, laid out
\* when the definition stores no positions.
loadDefinition(definition) ==
  IF "_builderPositions" \in DOMAIN definition.meta
  THEN definitionToFlow(definition)
  ELSE [nodes |-> applyAutoLayout(definitionToFlow(definition).nodes),
        edges |-> definitionToFlow(definition).edges]

\* The load effect that reloads for every definition.
isExternalChange_Always(lastSent, definition) == TRUE

\* isExternalChange of the builder's load effect.
isExternalChange(lastSent, definition) == lastSent # stringify(definition)

InitPage ==
  /\ pgInitial \in PageDefinitions
  /\ pgDefinition = pgInitial
  /\ pgEditor = stringify(pgInitial)
  /\ pgViewMode = "visual"
  /\ pgResult = Null /\ pgPending = Null /\ pgSaved = Null
  /\ pgNodes = loadDefinition(pgInitial).nodes
  /\ pgEdges = loadDefinition(pgInitial).edges
  /\ pgMeta = pgInitial.meta
  /\ pgLastSent = Null
  /\ pgTimer = Null
  /\ pgOps = 0 /\ pgLoads = 1 /\ pgOnlyLayout = TRUE
  /\ IdleParse /\ IdleSerialize /\ IdleBuilder /\ IdleModal /\ IdleConv /\ IdleGraph
  /\ IdleHook

\* A mutation of the builder's graph and its notification.
BuilderEdit(newNodes, newEdges, movesOnly) ==
  /\ pgViewMode = "visual"
  /\ pgTimer = Null
  /\ pgOps < MaxPageOps
  /\ pgOps' = pgOps + 1
  /\ pgNodes' = newNodes
  /\ pgEdges' = newEdges
  /\ pgTimer' = [type |-> "timer",
                 definition |-> flowToDefinition(newNodes, newEdges, pgMeta)]
  /\ pgOnlyLayout' = (pgOnlyLayout /\ movesOnly)
  /\ UNCHANGED <<pgInitial, pgDefinition, pgEditor, pgViewMode, pgResult, pgPending,
                 pgSaved, pgMeta, pgLastSent, pgLoads, othersOfPage>>

\* The end of a node drag on the builder's canvas.
pageNodeDrag ==
  \E i \in 1..Len(pgNodes) : \E position \in HookPositions :
    /\ pgNodes[i].position # position
    /\ BuilderEdit([pgNodes EXCEPT ![i].position = position], pgEdges, TRUE)

\* The Auto Layout button of the builder.
pageAutoLayout ==
  /\ Len(pgNodes) > 0
  /\ BuilderEdit(applyAutoLayout(pgNodes), pgEdges, TRUE)

\* A state is selected and deleted in the builder.
pageDeleteState ==
  \E i \in 1..Len(pgNodes) :
    BuilderEdit(nodesWithout(pgNodes, pgNodes[i].id), edgesNotAt(pgEdges, pgNodes[i].id),
                FALSE)

\* The builder's timer runs: wrappedOnChange(def) notes what is sent and
\* calls handleBuilderChange(def); the page renders and the builder's load
\* effect runs on the new definition prop.
handleBuilderChange ==
  /\ pgTimer # Null
  /\ pgTimer' = Null
  /\ pgDefinition' = pgTimer.definition
  /\ pgEditor' = stringify(pgTimer.definition)
  /\ pgResult' = Null
  /\ IF pgViewMode = "visual"
     THEN /\ pgLastSent' = stringify(pgTimer.definition)
          /\ IF isExternalChange(pgLastSent', pgDefinition')
             THEN /\ pgNodes' = loadDefinition(pgDefinition').nodes
                  /\ pgEdges' = loadDefinition(pgDefinition').edges
                  /\ pgMeta' = pgDefinition'.meta
                  /\ pgLoads' = pgLoads + 1
             ELSE UNCHANGED <<pgNodes, pgEdges, pgMeta, pgLoads>>
     ELSE UNCHANGED <<pgLastSent, pgNodes, pgEdges, pgMeta, pgLoads>>
  /\ UNCHANGED <<pgInitial, pgViewMode, pgPending, pgSaved, pgOps, pgOnlyLayout,
                 othersOfPage>>

\* handleEditorChange(value) in the JSON view.
handleEditorChange ==
  /\ pgViewMode = "json"
  /\ pgOps < MaxPageOps
  /\ pgOps' = pgOps + 1
  /\ \E value \in EditorInputs :
       /\ value # pgEditor
       /\ pgEditor' = value
       /\ IF parses(value)
          THEN pgDefinition' = parseJson(value) /\ pgResult' = Null
          ELSE UNCHANGED <<pgDefinition, pgResult>>
  /\ pgOnlyLayout' = FALSE
  /\ UNCHANGED <<pgInitial, pgViewMode, pgPending, pgSaved, pgNodes, pgEdges, pgMeta,
                 pgLastSent, pgTimer, pgLoads, othersOfPage>>

\* handleViewModeChange(mode): to the JSON view, where the builder is not
\* rendered, or back to the visual view, where a new builder loads the
\* definition.
handleViewModeChange ==
  /\ pgOps < MaxPageOps
  /\ pgOps' = pgOps + 1
  /\ IF pgViewMode = "visual"
     THEN /\ pgViewMode' = "json"
          /\ pgNodes' = <<>> /\ pgEdges' = <<>>
          /\ pgMeta' = EmptyObject
          /\ UNCHANGED <<pgDefinition, pgLoads>>
     ELSE /\ pgViewMode' = "visual"
          /\ pgDefinition' = IF parses(pgEditor) THEN parseJson(pgEditor) ELSE pgDefinition
          /\ pgNodes' = loadDefinition(pgDefinition').nodes
          /\ pgEdges' = loadDefinition(pgDefinition').edges
          /\ pgMeta' = pgDefinition'.meta
          /\ pgLoads' = pgLoads + 1
  /\ pgLastSent' = Null
  /\ UNCHANGED <<pgInitial, pgEditor, pgResult, pgPending, pgSaved, pgTimer, pgOnlyLayout,
                 othersOfPage>>

\* handleValidate(): the Validate button, disabled while a request is in
\* flight.
handleValidate ==
  /\ pgPending = Null
  /\ pgOps < MaxPageOps
  /\ pgOps' = pgOps + 1
  /\ IF parses(pgEditor)
     THEN /\ pgPending' = [type |-> "request", definition |-> parseJson(pgEditor)]
          /\ UNCHANGED pgResult
     ELSE /\ pgResult' = parseErrorResult
          /\ UNCHANGED pgPending
  /\ UNCHANGED <<pgInitial, pgDefinition, pgEditor, pgViewMode, pgSaved, pgNodes, pgEdges,
                 pgMeta, pgLastSent, pgTimer, pgLoads, pgOnlyLayout, othersOfPage>>

\* onSuccess of validateMutation: the answer of the server arrives.
validateMutationSuccess ==
  /\ pgPending # Null
  /\ pgResult' = serverValidate(pgPending.definition)
  /\ pgPending' = Null
  /\ UNCHANGED <<pgInitial, pgDefinition, pgEditor, pgViewMode, pgSaved, pgNodes, pgEdges,
                 pgMeta, pgLastSent, pgTimer, pgOps, pgLoads, pgOnlyLayout, othersOfPage>>

\* The Save New Version button is enabled.
saveEnabled == pgSaved = Null /\ pgResult # Null /\ pgResult.valid /\ hasChanges

\* handleSave() of the page: createVersionMutation.mutate(JSON.parse(
\* editorValue)); the run ends with the request.
handleSaveVersion ==
  /\ saveEnabled
  /\ parses(pgEditor)
  /\ pgOps < MaxPageOps
  /\ pgOps' = pgOps + 1
  /\ pgSaved' = [type |-> "request", definition |-> parseJson(pgEditor)]
  /\ UNCHANGED <<pgInitial, pgDefinition, pgEditor, pgViewMode, pgResult, pgPending,
                 pgNodes, pgEdges, pgMeta, pgLastSent, pgTimer, pgLoads, pgOnlyLayout,
                 othersOfPage>>

NextPage ==
  \/ pageNodeDrag
  \/ pageAutoLayout
  \/ pageDeleteState
  \/ handleBuilderChange
  \/ handleEditorChange
  \/ handleViewModeChange
  \/ handleValidate
  \/ validateMutationSuccess
  \/ handleSaveVersion

SpecPage == InitPage /\ [][NextPage]_vars

(***************************************************************************)
(* Part 12. Properties of the parser run (SpecParse)                       *)
(***************************************************************************)

\* The Condition the guard grammar gives a well-formed clause.
ExpectedCondition(clause) ==
  Condition(clause.field, clause.operator,
            IF clause.operator \in CmpOperators THEN clause.lit.value ELSE Undef,
            clause.kind = "neg")

ExpectedConditions(clauses) == [i \in 1..Len(clauses) |-> ExpectedCondition(clauses[i])]

WellFormed(s) == \A i \in 1..Len(s.clauses) : s.clauses[i].kind # "bad"

SepsUsed(s) == {s.seps[i] : i \in 1..Len(s.seps)}

\* The positions of the run at which parseExpression(text) has been taken.
Parsed == {"parsed", "generated", "reparsed"}

\* C1: for every tree t that parseExpression returns for an accepted text,
\* parseExpression(generateExpression(t)) succeeds and equals t in logic,
\* item order and every item's field, operator, value (with its type) and
\* negated flag.
C1_ParseGenerateRoundTrip ==
  gpc = "reparsed" => (tree2 # Null /\ tree2 = tree)

\* Text in the serializer's canonical form: atoms ctx.f, !ctx.f or
\* ctx.f <op> <literal> with canonical literals, joined at one level by
\* " && " only or " || " only.
Canonical(s) ==
  /\ s.shape = "flat"
  /\ Cardinality(SepsUsed(s)) <= 1
  /\ \A i \in 1..Len(s.clauses) : s.clauses[i].kind = "atom" /\ s.clauses[i].lit.canonical

\* C6: canonical guard text is accepted by parseExpression, and
\* generateExpression of the resulting tree returns the identical string.
C6_CanonicalTextVerbatim ==
  /\ (gpc \in Parsed /\ Canonical(src) => tree # Null)
  /\ (gpc \in {"generated", "reparsed"} /\ Canonical(src) => out = text)

\* Text outside the guard grammar: && and || at the same level with no
\* parenthesized group between them, or a clause that is empty, has an
\* unmatched parenthesis, lacks a side of its operator or is no atom.
Malformed(s) ==
  \/ s.shape = "flat" /\ SepsUsed(s) = Seps
  \/ ~WellFormed(s)

\* C7: parseExpression returns failure (null) for every text outside the
\* guard grammar; it never guesses a precedence or drops part of the text.
C7_MalformedTextRejected ==
  gpc \in Parsed /\ Malformed(src) => tree = Null

\* The tree the guard grammar gives a text with a negated parenthesized
\* sub-expression: the sub-expression is a child group with negated = true.
NegatedChild(s) ==
  CASE s.shape = "neg_all" ->
         Group(s.seps[1], ExpectedConditions(s.clauses), TRUE)
    [] s.shape = "neg_first" ->
         Group(s.seps[1], ExpectedConditions(SubSeq(s.clauses, 1, 2)), TRUE)
    [] OTHER ->
         Group(s.seps[2], ExpectedConditions(SubSeq(s.clauses, 2, 3)), TRUE)

\* C8: a parenthesized sub-expression prefixed with "!" (alone or as one
\* term of a larger expression) becomes a child ConditionGroup with
\* negated = true whose items are the conditions of the sub-expression.
C8_NegatedSubExpressionIsGroup ==
  gpc \in Parsed /\ src.shape \in {"neg_all", "neg_first", "neg_last"} /\ WellFormed(src)
    => /\ tree # Null
       /\ \E i \in 1..Len(tree.items) : tree.items[i] = NegatedChild(src)

RECURSIVE AllComplete(_)
AllComplete(item) ==
  IF isCondition(item) THEN fieldNotBlank(item)
  ELSE \A i \in 1..Len(item.items) : AllComplete(item.items[i])

\* A tree up to what cannot change its meaning: the logic of a group of one
\* item is taken as "and", a sub-group of one item that is not negated is
\* taken as that item, and a negated sub-group of one condition is taken as
\* that condition with its negation flipped.
RECURSIVE Normalized(_)
Normalized(item) ==
  IF isCondition(item) THEN item
  ELSE LET items == [i \in 1..Len(item.items) |-> Normalized(item.items[i])]
           unwrap(x) ==
             IF isCondition(x) \/ Len(x.items) # 1 THEN x
             ELSE IF ~x.negated THEN x.items[1]
             ELSE IF isCondition(x.items[1]) THEN [x.items[1] EXCEPT !.negated = ~@]
             ELSE x
       IN Group(IF Len(items) = 1 THEN "and" ELSE item.logic,
                [i \in 1..Len(items) |-> unwrap(items[i])], item.negated)

\* C5: every tree built in the visual builder from complete conditions
\* serializes to text that parseExpression maps back to an equivalent tree,
\* so the tree GuardBuilder re-derives from its value shows the same
\* conditions and structure as the tree that was built.
C5_BuiltTreeRederived ==
  gbBuilt # Null /\ AllComplete(gbBuilt)
    => /\ parseExpression(gbExpr) # Null
       /\ Normalized(parseExpression(gbExpr)) = Normalized(gbBuilt)
       /\ Normalized(gbGroup) = Normalized(gbBuilt)

\* An item the serializer's contract keeps: a condition with a non-blank
\* field, or a group holding such a condition at any depth.
ValidItem(item) ==
  IF isCondition(item) THEN fieldNotBlank(item) ELSE hasValidConditions(item)

\* The tree without its blank-field conditions and without the sub-groups
\* left with no valid condition.
RECURSIVE Pruned(_)
Pruned(item) ==
  IF isCondition(item) THEN item
  ELSE [item EXCEPT !.items =
          [i \in 1..Len(SelectSeq(item.items, ValidItem)) |->
             Pruned(SelectSeq(item.items, ValidItem)[i])]]

\* The nearest characters that are not spaces before and after a position
\* of a text ("" when there is none).
CharBefore(txt, i) ==
  IF \E j \in 1..(i - 1) : txt[j] # " "
  THEN txt[SetMax({j \in 1..(i - 1) : txt[j] # " "})]
  ELSE ""

CharAfter(txt, i) ==
  IF \E j \in (i + 1)..Len(txt) : txt[j] # " "
  THEN txt[SetMin({j \in (i + 1)..Len(txt) : txt[j] # " "})]
  ELSE ""

\* The text holds && or || without an operand on one of its sides.
OperandMissing(txt) ==
  \E i \in 1..(Len(txt) - 1) :
    /\ txt[i] \in {"&", "|"}
    /\ txt[i + 1] = txt[i]
    /\ \/ CharBefore(txt, i) \in {"", "("}
       \/ CharAfter(txt, i + 1) \in {"", ")"}

\* C11: blank-field conditions are dropped at every nesting depth: the text
\* generateExpression produces for a tree is the text of the tree without
\* its blank-field conditions and without the sub-groups left with no valid
\* condition; a tree with no valid item gives the empty string; the text
\* never holds && or || with a missing operand.
C11_BlankConditionsDropped ==
  gbBuilt # Null
    => /\ gbExpr = generateExpression(Pruned(gbBuilt))
       /\ (~hasValidConditions(gbBuilt) => gbExpr = <<>>)
       /\ ~OperandMissing(gbExpr)

\* The text the serializer's contract gives an item: a negated condition is
\* !(<expr>); a nested group joins its valid items, in parentheses when they
\* are more than one, and as !(<joined>) when it is negated.
RECURSIVE ScopedItem(_)
ScopedItem(item) ==
  IF isCondition(item)
  THEN (IF item.negated THEN <<"!", "(">> ELSE <<>>)
         \o conditionToString([item EXCEPT !.negated = FALSE])
         \o (IF item.negated THEN <<")">> ELSE <<>>)
  ELSE (IF item.negated THEN <<"!", "(">>
        ELSE IF Len(SelectSeq(item.items, ValidItem)) > 1 THEN <<"(">> ELSE <<>>)
         \o Join([i \in 1..Len(SelectSeq(item.items, ValidItem)) |->
                    ScopedItem(SelectSeq(item.items, ValidItem)[i])], joinerOf(item))
         \o (IF item.negated \/ Len(SelectSeq(item.items, ValidItem)) > 1
             THEN <<")">> ELSE <<>>)

\* The text of the root: its valid items joined, never wrapped unless the
\* root is negated.
ScopedRoot(group) ==
  IF ~hasValidConditions(group) THEN <<>>
  ELSE (IF group.negated THEN <<"!", "(">> ELSE <<>>)
         \o Join([i \in 1..Len(SelectSeq(group.items, ValidItem)) |->
                    ScopedItem(SelectSeq(group.items, ValidItem)[i])], joinerOf(group))
         \o (IF group.negated THEN <<")">> ELSE <<>>)

\* C12: operator scope is explicit in the serialized text: a nested group
\* of more than one valid item is in parentheses around its own join
\* whatever the negation of it or of its parent, a group of exactly one
\* valid item is written as that item unless it is negated, a negated
\* condition is !(<expr>), a negated group !(<joined>), and a root that is
\* not negated is never wrapped.
C12_ScopeExplicit ==
  gbBuilt # Null => gbExpr = ScopedRoot(gbBuilt)

(***************************************************************************)
(* Part 13b. Properties of the guard editing run (SpecModal)               *)
(***************************************************************************)

TreeOrNull(parsed) == parsed.type \in {"group", "null"}

\* Text that is not empty and that parseExpression cannot parse.
Unparsable(guardText) == guardText # <<>> /\ parseExpression(guardText) = Null

\* A step that takes the open guard builder from raw to visual mode while
\* its raw text, which does not parse, stays in the textarea.
FailedSwitch ==
  /\ gmOpen /\ gmOpen'
  /\ gbMode = "raw" /\ gbMode' = "visual"
  /\ Unparsable(gbRaw)
  /\ gbRaw' # <<>>

\* C18: parseExpression gives every text a tree or null and never anything
\* else, and whenever the guard builder goes from raw to visual mode with
\* text that fails to parse, the condition tree it holds is left exactly as
\* it was.
C18_FailedParseKeepsTree ==
  /\ [](TreeOrNull(parseExpression(gbRaw)))
  /\ [][FailedSwitch => gbGroup' = gbGroup]_vars

\* The part of C18 that handleModeSwitch itself answers for: a switch to
\* visual mode that leaves the value prop alone (no remount) keeps the tree
\* when the raw text fails to parse.
handleModeSwitchKeepsTree ==
  [][FailedSwitch /\ gbValue' = gbValue => gbGroup' = gbGroup]_vars

\* A state where handleModeSwitch meets typed text that fails to parse.
handleModeSwitchMeetsUnparsable ==
  gmOpen /\ gbMode = "raw" /\ Unparsable(gbRaw) /\ gbRaw # gbValue

\* C19: guard text that parseExpression cannot parse, entered in raw mode,
\* leaves the previous guard in effect: it never becomes the value handed
\* to onChange (the modal's localValue), and it never becomes the guard
\* handed to onSave and updateTransitionGuard.
C19_UnparsableNotPropagated ==
  /\ ~Unparsable(gbValue)
  /\ ~Unparsable(edgeGuard)

(***************************************************************************)
(* Part 13c. Properties of the editor hook run (SpecHook)                  *)
(***************************************************************************)

\* The definition of a node list and an edge list under the hook's meta.
DefinitionOf(nodes, edges) == flowToDefinition(nodes, edges, HookMeta)

\* C20: the definition delivered to onChange after a mutation is
\* flowToDefinition of the nodes and edges that resulted from that mutation,
\* and once every notification has run, the definition delivered for the
\* last change of the graph is that of the hook's nodes and edges: it
\* reflects every mutation, also those made before the callbacks were made
\* again.
C20_DeliveredIsResult ==
  hkDelivered # Null =>
    /\ hkDelivered.definition = DefinitionOf(hkDelivered.resultNodes, hkDelivered.resultEdges)
    /\ (hkTimers = <<>> /\ hkDelivered.serial = hkChanged)
         => hkDelivered.definition = DefinitionOf(hkNodes, hkEdges)

\* C21: every mutation of the graph is eventually followed by the delivery
\* of a definition derived at that mutation or after it.
C21_MutationDelivered ==
  \A n \in 1..MaxMutations :
    (hkChanged = n) ~> (hkDelivered # Null /\ hkDelivered.serial >= n)


\* C24: every definition emitted for a non-empty graph satisfies the
\* invariants of the data model.
C24_EmittedSatisfiesInvariants ==
  (hkDelivered # Null /\ hkDelivered.definition.states # <<>>)
    => dataModelInvariants(hkDelivered.definition)

\* C27: every edge's source and target are ids of nodes of the graph, and
\* every node's id is its label.
C27_EdgesAtNodes ==
  /\ \A k \in 1..Len(hkEdges) :
       hkEdges[k].source \in HookIds(hkNodes) /\ hkEdges[k].target \in HookIds(hkNodes)
  /\ \A i \in 1..Len(hkNodes) : hkNodes[i].id = hkNodes[i].data.label

\* C28: at most one node is flagged initial.
C28_AtMostOneInitial ==
  \A i \in 1..Len(hkNodes) : \A j \in 1..Len(hkNodes) :
    (hkNodes[i].data.isInitial /\ hkNodes[j].data.isInitial) => i = j

\* A name with the new name in place of the old one.
substituted(name, oldName, newName) == IF name = oldName THEN newName ELSE name

\* A definition with a state name substituted: in states, initial, the from
\* and to names of the transitions and the keys of the stored positions.
substituteName(definition, oldName, newName) ==
  [states |-> [i \in 1..Len(definition.states) |->
                 substituted(definition.states[i], oldName, newName)],
   initial |-> substituted(definition.initial, oldName, newName),
   transitions |->
     [k \in 1..Len(definition.transitions) |->
        [definition.transitions[k] EXCEPT
           !.to = substituted(@, oldName, newName),
           !.from.names = [i \in 1..Len(@) |-> substituted(@[i], oldName, newName)]]],
   meta |->
     [definition.meta EXCEPT
        !["_builderPositions"] =
          [name \in {substituted(n, oldName, newName) : n \in DOMAIN @} |->
             @[CHOOSE n \in DOMAIN @ : substituted(n, oldName, newName) = name]]]]

\* A renameState call that must change nothing: the name is blank, or its
\* trimmed form is the label of another node of the graph.
MustReject(nodes, call) ==
  \/ StringTrim(call.newName) = ""
  \/ \E i \in 1..Len(nodes) :
       nodes[i].id # call.nodeId /\ nodes[i].data.label = StringTrim(call.newName)

\* The nodes and edges after an accepted rename: only the node's id and
\* label changed, the edges' ends that referred to the node re-pointed,
\* events and guards kept.
OnlyRenamed(nodes, edges, newNodes, newEdges, oldName, newName) ==
  /\ Len(newNodes) = Len(nodes) /\ Len(newEdges) = Len(edges)
  /\ \A i \in 1..Len(nodes) :
       /\ newNodes[i].id = substituted(nodes[i].id, oldName, newName)
       /\ newNodes[i].data.label =
            (IF nodes[i].id = oldName THEN newName ELSE nodes[i].data.label)
       /\ newNodes[i].position = nodes[i].position
       /\ newNodes[i].data.isInitial = nodes[i].data.isInitial
  /\ \A k \in 1..Len(edges) :
       /\ newEdges[k].source = substituted(edges[k].source, oldName, newName)
       /\ newEdges[k].target = substituted(edges[k].target, oldName, newName)
       /\ newEdges[k].data.event = edges[k].data.event
       /\ newEdges[k].data.guard = edges[k].data.guard

\* A step that is a renameState call.
RenameStep == hkMutations' # hkMutations /\ hkCall' # Null

\* C30: a renameState call with a blank name, or with a trimmed name that
\* another node carries, leaves nodes, edges and selection unchanged and
\* emits nothing; any other call changes only the renamed node's id and
\* label, re-points the edges, and emits the previous definition with the
\* name substituted.
C30_RenameFrame ==
  [][RenameStep =>
       IF MustReject(hkNodes, hkCall')
       THEN UNCHANGED <<hkNodes, hkEdges, hkSelection, hkTimers, hkDelivered>>
       ELSE /\ OnlyRenamed(hkNodes, hkEdges, hkNodes', hkEdges', hkCall'.nodeId,
                           StringTrim(hkCall'.newName))
            /\ Len(hkTimers') = Len(hkTimers) + 1
            /\ DefinitionOf(hkTimers'[Len(hkTimers')].nodes, hkTimers'[Len(hkTimers')].edges)
                 = substituteName(DefinitionOf(hkNodes, hkEdges), hkCall'.nodeId,
                                  StringTrim(hkCall'.newName))]_vars

(***************************************************************************)
(* Part 13d. Properties of the page run (SpecPage)                         *)
(***************************************************************************)

\* A step that issues the createVersion request.
SaveStep == pgSaved = Null /\ pgSaved' # Null

\* C22: while the graph of the builder has a structural error (a non-empty
\* errors list of validateBuilderState), no save request is issued.
C22_ErrorsBlockSave ==
  [][(SaveStep /\ pgViewMode = "visual")
       => validateBuilderState(pgNodes, pgEdges).errors = <<>>]_vars

\* A step in which the builder's timer hands a definition to onChange.
EmitStep == pgTimer # Null /\ pgTimer' = Null

\* C25: a notification is only scheduled by a mutation the user makes, and
\* the definition the builder emitted, coming back as its definition prop,
\* loads nothing: loadDefinition does not run, nodes and edges stay, and no
\* further notification is scheduled.
C25_NoReloadOfOwnEmission ==
  [][/\ (pgTimer' # Null /\ pgTimer' # pgTimer) => pgOps' = pgOps + 1
     /\ EmitStep => /\ pgLoads' = pgLoads
                    /\ pgNodes' = pgNodes /\ pgEdges' = pgEdges
                    /\ pgDefinition' = pgTimer.definition]_vars

\* The builder emitted a definition in the visual view, and the page holds
\* it.
C25_Witness ==
  /\ pgViewMode = "visual"
  /\ pgLastSent # Null
  /\ pgLastSent = stringify(pgDefinition)
  /\ pgTimer = Null
  /\ pgLoads = 1

\* C26: as long as the edits since the load only moved nodes, the page's
\* definition is definitionsEqual to the loaded one, so that Save New
\* Version is not available.
C26_LayoutOnlyNoChanges ==
  pgOnlyLayout => (definitionsEqual(pgDefinition, pgInitial) /\ ~saveEnabled)

\* C29: a save request is issued only while the validation result is valid
\* and was computed for the definition saved.
C29_SavedIsValidated ==
  [][SaveStep => /\ pgResult # Null
                 /\ pgResult.valid
                 /\ pgResult.of = <<pgSaved'.definition>>]_vars

(***************************************************************************)
(* Part 14. Properties of the serializer run (SpecSerialize)               *)
(***************************************************************************)

\* The literal the serializer's contract gives a value: a string in double
\* quotes, a boolean or null literally, a number in decimal.
LiteralOf(value) ==
  CASE value.t = "string" -> Quote(value.s)
    [] value.t = "boolean" -> (IF value.b THEN TRUE_ ELSE FALSE_)
    [] value.t = "null" -> NULL_
    [] OTHER ->
         (IF value.neg THEN <<"-">> ELSE <<>>) \o NatToDigits(value.int)
           \o (IF value.frac = <<>> THEN <<>> ELSE <<".">> \o value.frac)

\* C10: the serializer writes a condition as ctx.<field> for exists,
\* !ctx.<field> for not_exists and ctx.<field> <op> <literal> for every
\* comparison operator, a string value always in double quotes, booleans
\* and null literally, numbers in decimal.
C10_ConditionText ==
  spc = "written" /\ ~cond.negated
    => condText = AtomText(cond.field, cond.operator, LiteralOf(cond.value))

(***************************************************************************)
(* Part 15. Properties of the converter run (SpecConv)                     *)
(***************************************************************************)

\* The (source, event, target, guard) tuples of a definition's transitions,
\* every `from` array expanded into single sources.
TuplesOf(pairs) ==
  [k \in 1..Len(pairs) |->
     <<pairs[k].fromState, pairs[k].transition.event,
       pairs[k].transition.to, pairs[k].transition.guard>>]

ExpandedTuples(transitions) == TuplesOf(Expand(transitions))

Range(seq) == {seq[i] : i \in 1..Len(seq)}

Count(seq, x) == Cardinality({i \in 1..Len(seq) : seq[i] = x})

\* C2: for a definition d that satisfies the data-model invariants,
\* flowToDefinition(definitionToFlow(d)) has the same states, the same
\* initial and the same collection of expanded (source, event, target,
\* guard) transitions: no event is altered, nothing is merged away or lost.
C2_DefinitionRoundTrip ==
  cpc = "back"
    => /\ def2.states = def.states
       /\ def2.initial = def.initial
       /\ \A x \in Range(ExpandedTuples(def.transitions)) \cup Range(ExpandedTuples(def2.transitions)) :
            Count(ExpandedTuples(def.transitions), x) = Count(ExpandedTuples(def2.transitions), x)

\* The sources, in order, of the expanded transitions on event to target.
SourcesOn(transitions, event, target) ==
  LET on(x) == x[2] = event /\ x[3] = target
      hits == SelectSeq(ExpandedTuples(transitions), on)
  IN [k \in 1..Len(hits) |-> hits[k][1]]

PairKey(source, target) == source \o "->" \o target

\* Of the expanded transitions, those whose source and target give the key,
\* in order.
TuplesKeyed(tuples, key) ==
  LET keyed(x) == PairKey(x[1], x[3]) = key
  IN SelectSeq(tuples, keyed)

RECURSIVE JoinEvents(_)
JoinEvents(tuples) ==
  IF Len(tuples) = 1 THEN tuples[1][2]
  ELSE tuples[1][2] \o ", " \o JoinEvents(Tail(tuples))

\* The edge stands for the expanded transitions of one key.
EdgeOfKeyed(edge, keyed) ==
  /\ edge.source = keyed[1][1]
  /\ edge.target = keyed[1][3]
  /\ edge.data.guard = keyed[1][4]
  /\ edge.data.event = JoinEvents(keyed)
  /\ edge.data.fromStates = [k \in 1..Len(keyed) |-> keyed[k][1]]

OneEdgePerKey(edges, tuples) ==
  /\ Len(edges) = Cardinality({PairKey(x[1], x[3]) : x \in Range(tuples)})
  /\ \A key \in {PairKey(x[1], x[3]) : x \in Range(tuples)} :
       \E i \in 1..Len(edges) : EdgeOfKeyed(edges[i], TuplesKeyed(tuples, key))

LabelOf(nodes, id) == findNode(nodes, id)[1].data.label

\* The edges of the graph whose source and target nodes both exist.
LiveEdges(nodes, edges) ==
  LET live(e) == findNode(nodes, e.source) # <<>> /\ findNode(nodes, e.target) # <<>>
  IN SelectSeq(edges, live)

\* The distinct elements of a sequence in the order of their first occurrence.
RECURSIVE Distinct(_)
Distinct(seq) ==
  IF Len(seq) = 0 THEN <<>>
  ELSE LET front == Distinct(SubSeq(seq, 1, Len(seq) - 1))
       IN IF seq[Len(seq)] \in Range(front) THEN front ELSE Append(front, seq[Len(seq)])

\* C4: flowToDefinition emits exactly one transition per distinct (event,
\* target label) pair among the edges whose source and target nodes exist;
\* its from is a single name when one source contributes and otherwise the
\* distinct contributing source labels in edge order; guard is included
\* only when it is non-empty.
C4_OneTransitionPerEventTarget ==
  cpc = "back"
    => LET live == LiveEdges(flow.nodes, flow.edges)
           pairs == {<<live[k].data.event, LabelOf(flow.nodes, live[k].target)>> : k \in 1..Len(live)}
           sources(p) ==
             LET on(e) == e.data.event = p[1] /\ LabelOf(flow.nodes, e.target) = p[2]
                 hits == SelectSeq(live, on)
             IN Distinct([k \in 1..Len(hits) |-> LabelOf(flow.nodes, hits[k].source)])
       IN /\ Len(def2.transitions) = Cardinality(pairs)
          /\ \A p \in pairs :
               \E i \in 1..Len(def2.transitions) :
                 /\ def2.transitions[i].event = p[1]
                 /\ def2.transitions[i].to = p[2]
                 /\ def2.transitions[i].from.names = sources(p)
                 /\ def2.transitions[i].from.arr = (Len(sources(p)) # 1)
          /\ \A i \in 1..Len(def2.transitions) :
               def2.transitions[i].guard # <<>> => def2.transitions[i].guard[1] # ""

\* C13: definitionToFlow returns one node per entry of d.states, in the
\* declared order, with id and label equal to the state name and isInitial
\* true exactly for the node named d.initial; with unique names and initial
\* in states exactly one node is flagged.
C13_OneNodePerState ==
  cpc \in {"flow", "back"}
    => /\ Len(flow.nodes) = Len(def.states)
       /\ \A i \in 1..Len(def.states) :
            /\ flow.nodes[i].id = def.states[i]
            /\ flow.nodes[i].data.label = def.states[i]
            /\ flow.nodes[i].data.isInitial = (def.states[i] = def.initial)
       /\ Cardinality({i \in 1..Len(flow.nodes) : flow.nodes[i].data.isInitial}) = 1

\* Three states with the second one initial have become three nodes of
\* which only the second is flagged.
C13_Witness ==
  /\ cpc = "flow"
  /\ def.states = <<"a", "b", "a->a">>
  /\ def.initial = "b"
  /\ Len(flow.nodes) = 3
  /\ flow.nodes[2].data.isInitial
  /\ ~flow.nodes[1].data.isInitial
  /\ ~flow.nodes[3].data.isInitial

\* C15: definitionToFlow gives every state with an entry in
\* meta._builderPositions exactly that position; flowToDefinition writes
\* under _builderPositions a position for every current node and for no
\* other name; every other key of the prior meta is in the output meta with
\* its value unchanged.
C15_LayoutMetadataStable ==
  /\ (cpc \in {"flow", "back"} /\ "_builderPositions" \in DOMAIN def.meta)
       => \A i \in 1..Len(def.states) :
            def.states[i] \in DOMAIN def.meta["_builderPositions"]
              => flow.nodes[i].position = def.meta["_builderPositions"][def.states[i]]
  /\ cpc = "back"
       => /\ "_builderPositions" \in DOMAIN def2.meta
          /\ DOMAIN def2.meta["_builderPositions"]
               = {flow.nodes[i].data.label : i \in 1..Len(flow.nodes)}
          /\ \A i \in 1..Len(flow.nodes) :
               def2.meta["_builderPositions"][flow.nodes[i].data.label] = flow.nodes[i].position
          /\ \A k \in DOMAIN def.meta \ {"_builderPositions"} :
               k \in DOMAIN def2.meta /\ def2.meta[k] = def.meta[k]

\* A definition with a stored position for a and another meta key has gone
\* to the graph and back: a kept its stored position, b got its grid
\* position, and the other key is still there.
C15_Witness ==
  /\ cpc = "back"
  /\ def.states = <<"a", "b">>
  /\ "owner" \in DOMAIN def.meta
  /\ flow.nodes[1].position = Position(7, 9)
  /\ flow.nodes[2].position = Position(NODE_SPACING_X + 50, 50)
  /\ def2.meta["owner"] = "ops"
  /\ def2.meta["_builderPositions"]["a"] = Position(7, 9)
  /\ def2.meta["_builderPositions"]["b"] = Position(NODE_SPACING_X + 50, 50)

(***************************************************************************)
(* Part 15b. Properties of the run on invalid definitions (SpecInvalid)    *)
(***************************************************************************)

\* The ids of a node list.
IdsOf(nodes) == {nodes[i].id : i \in 1..Len(nodes)}

\* A transition of the definition converted back stems from an edge between
\* two nodes of the graph.
stemsFromEdge(transition, nodes, edges) ==
  \E k \in 1..Len(edges) :
    /\ edges[k].source \in IdsOf(nodes) /\ edges[k].target \in IdsOf(nodes)
    /\ edges[k].data.event = transition.event
    /\ edges[k].target = transition.to

\* C23: on every structurally invalid definition the converter and the
\* validator give results, not exceptions: definitionToFlow a node per
\* state and an edge per from / to pair, also for ends that are no states;
\* validateBuilderState a result whose valid flag says that errors is
\* empty; flowToDefinition a definition with the labels as states, whose
\* transitions stem from the edges between nodes (the others are skipped),
\* and with initial "" and no transition for the empty graph.
C23_ResultsOnInvalid ==
  /\ cpc \in {"flow", "back"} =>
       /\ Len(flow.nodes) = Len(def.states)
       /\ \A i \in 1..Len(def.states) :
            flow.nodes[i].id = def.states[i] /\ flow.nodes[i].data.label = def.states[i]
       /\ \A k \in 1..Len(def.transitions) :
            \A i \in 1..Len(def.transitions[k].from.names) :
              \E e \in 1..Len(flow.edges) :
                /\ flow.edges[e].source = def.transitions[k].from.names[i]
                /\ flow.edges[e].target = def.transitions[k].to
  /\ vpc = "validated" =>
       /\ validation.valid = (validation.errors = <<>>)
       /\ def.states = <<>> => ~validation.valid
  /\ cpc = "back" =>
       /\ def2.states = def.states
       /\ \A k \in 1..Len(def2.transitions) :
            stemsFromEdge(def2.transitions[k], flow.nodes, flow.edges)
       /\ def.states = <<>> => def2.initial = "" /\ def2.transitions = <<>>

\* A definition with a transition whose source is no state was converted,
\* validated and converted back, and the transition was skipped.
C23_Witness ==
  /\ cpc = "back" /\ vpc = "validated"
  /\ def.states = <<"a">> /\ def.initial = "z"
  /\ Len(def.transitions) = 1 /\ def.transitions[1].from.names = <<"z">>
  /\ def2.transitions = <<>>
  /\ ~validation.valid

(***************************************************************************)
(* Part 16. Properties of the validator run (SpecGraph)                    *)
(***************************************************************************)

\* The positions of the run at which the graph has been validated.
Validated == {"validated", "defined"}

Flagged(nodes) == {i \in 1..Len(nodes) : nodes[i].data.isInitial}

\* C14: flowToDefinition sets states to the node labels in node order and
\* initial to the label of the node flagged isInitial, or to the first
\* state when no node is flagged; whenever no node of a non-empty graph is
\* flagged, validateBuilderState on the same nodes reports an error.
C14_InitialOrFirstState ==
  vpc = "defined"
    => /\ vDef.states = [i \in 1..Len(vNodes) |-> vNodes[i].data.label]
       /\ vDef.initial =
            IF Flagged(vNodes) # {} THEN vNodes[SetMin(Flagged(vNodes))].data.label
            ELSE IF Len(vNodes) > 0 THEN vNodes[1].data.label
            ELSE ""
       /\ (Flagged(vNodes) = {} /\ Len(vNodes) > 0
             => Len(validation.errors) > 0 /\ ~validation.valid)

\* The names carried by more than one node.
DuplicatedNames(nodes) ==
  {nodes[i].data.label : i \in {j \in 1..Len(nodes) :
      \E k \in 1..Len(nodes) : k # j /\ nodes[k].data.label = nodes[j].data.label}}

\* The messages that name every one of the names once, in some order.
DuplicateMessages(names) ==
  {"Duplicate state names: " \o JoinStrings(p, ", ") :
     p \in {q \in [1..Cardinality(names) -> names] :
              \A i, j \in 1..Cardinality(names) : i # j => q[i] # q[j]}}

BlankEventMessage(source, target) ==
  "Transition from \"" \o source \o "\" to \"" \o target \o "\" has no event name"

BlankEventEdges(edges) ==
  {k \in 1..Len(edges) : edges[k].data.event \in {"", " "}}

OnceIf(errors, message, violated) == Count(errors, message) = (IF violated THEN 1 ELSE 0)

\* C16: on a non-empty graph validateBuilderState evaluates every rule:
\* errors holds one message for each violated rule among no node flagged
\* initial, more than one node flagged initial (the message with "one
\* initial state"), duplicate state names (each duplicate named once), a
\* blank or whitespace-only state name, plus one message per edge with a
\* blank or whitespace-only event that names the edge's source and target,
\* and nothing else; the empty graph gives exactly one error and no
\* warning; valid is true exactly when errors is empty.
C16_EveryRuleEvaluated ==
  vpc \in Validated
    => /\ validation.valid = (Len(validation.errors) = 0)
       /\ IF Len(vNodes) = 0
          THEN Len(validation.errors) = 1 /\ Len(validation.warnings) = 0
          ELSE /\ OnceIf(validation.errors, "State machine must have an initial state",
                         Flagged(vNodes) = {})
               /\ OnceIf(validation.errors, "State machine can only have one initial state",
                         Cardinality(Flagged(vNodes)) > 1)
               /\ OnceIf(validation.errors, "All states must have a name",
                         \E i \in 1..Len(vNodes) : vNodes[i].data.label \in {"", " "})
               /\ Cardinality({k \in 1..Len(validation.errors) :
                     validation.errors[k] \in DuplicateMessages(DuplicatedNames(vNodes))})
                    = (IF DuplicatedNames(vNodes) # {} THEN 1 ELSE 0)
               /\ \A k \in BlankEventEdges(vEdges) :
                    Count(validation.errors, BlankEventMessage(vEdges[k].source, vEdges[k].target))
                      = Cardinality({j \in BlankEventEdges(vEdges) :
                                       /\ vEdges[j].source = vEdges[k].source
                                       /\ vEdges[j].target = vEdges[k].target})
               /\ Len(validation.errors) =
                    (IF Flagged(vNodes) = {} THEN 1 ELSE 0)
                    + (IF Cardinality(Flagged(vNodes)) > 1 THEN 1 ELSE 0)
                    + (IF \E i \in 1..Len(vNodes) : vNodes[i].data.label \in {"", " "} THEN 1 ELSE 0)
                    + (IF DuplicatedNames(vNodes) # {} THEN 1 ELSE 0)
                    + Cardinality(BlankEventEdges(vEdges))

\* Two nodes named a, both flagged initial, a node without a name and an
\* edge without an event: four rules are violated and four errors reported.
C16_Witness ==
  /\ vpc = "validated"
  /\ Len(vNodes) = 3
  /\ Cardinality(Flagged(vNodes)) = 2
  /\ Len(vEdges) = 1
  /\ Len(validation.errors) = 4
  /\ Contains(validation.errors, "State machine can only have one initial state")
  /\ Contains(validation.errors, "Duplicate state names: a")
  /\ Contains(validation.errors, "All states must have a name")
  /\ Contains(validation.errors, "Transition from \"a\" to \"a\" has no event name")
  /\ ~validation.valid

\* The nodes that are not initial and are no end of any edge.
Isolated(nodes, edges) ==
  {i \in 1..Len(nodes) :
     /\ ~nodes[i].data.isInitial
     /\ \A k \in 1..Len(edges) : edges[k].source # nodes[i].id /\ edges[k].target # nodes[i].id}

IsolatedWarning(label) == "State \"" \o label \o "\" has no transitions"

\* C17: validateBuilderState emits exactly one warning for each non-initial
\* node that is neither the source nor the target of any edge, naming that
\* state, and no other warning; an initial node without edges and a node
\* whose only edge is a self-loop produce none; warnings never make valid
\* false.
C17_IsolatedStatesWarned ==
  vpc \in Validated
    => /\ Len(validation.warnings) = Cardinality(Isolated(vNodes, vEdges))
       /\ \A i \in Isolated(vNodes, vEdges) :
            Count(validation.warnings, IsolatedWarning(vNodes[i].data.label))
              = Cardinality({j \in Isolated(vNodes, vEdges) :
                               vNodes[j].data.label = vNodes[i].data.label})
       /\ validation.valid = (Len(validation.errors) = 0)

\* An initial node a without edges, a node b whose only edge is a self-loop
\* and a node left alone: one warning, for the third node only.
C17_Witness ==
  /\ vpc = "validated"
  /\ Len(vNodes) = 3
  /\ vNodes[1].data.isInitial /\ vNodes[1].id = "a"
  /\ vNodes[2].id = "b" /\ ~vNodes[2].data.isInitial
  /\ ~vNodes[3].data.isInitial
  /\ Len(vEdges) = 1 /\ vEdges[1].source = "b" /\ vEdges[1].target = "b"
  /\ Len(validation.warnings) = 1
  /\ validation.warnings[1] = IsolatedWarning(vNodes[3].data.label)

====
